---- MODULE Spec2Model ----
(***************************************************************************)
(* A model of the reback-js render engine (src/src/Component.ts) together  *)
(* with its render caches and its context objects.                         *)
(*                                                                         *)
(* The engine is a set of mutually recursive functions that mutate         *)
(* component records and a few module-level globals.  Each function is     *)
(* translated to an operator that takes the whole mutable world `w` (a     *)
(* record holding every component's internal data and the globals) and     *)
(* returns the world after the call; the value a call returns or throws    *)
(* is left in `w.ret`.  Every public entry point (renderRoot, setState,    *)
(* forceRender, ..., the scheduled callbacks, the settlement of a prepare  *)
(* promise) is one action that runs its operator on the current state.     *)
(*                                                                         *)
(* The overridable hooks of a component class (doRender, doPrepare, ...)   *)
(* are user code; they are described by small scripts (`prog`) and policy  *)
(* settings (`conf`) that say which children the hook renders, which       *)
(* context keys and state attributes it reads, and whether it throws.      *)
(***************************************************************************)
EXTENDS Integers, Sequences, FiniteSets, TLC

VARIABLES
    comp,            \* component id -> RebackInternalData (Component.ts 1351-1445)
    state,           \* component id -> Component.state
    renderStack,     \* Component.ts 90
    renderState,     \* Component.ts 93-129
    interruptedComponents,      \* Component.ts 241
    rerenderInterruptedTimeout, \* Component.ts 246
    unmountedComponents,        \* Component.ts 251
    disappearHandlersTimeout,   \* Component.ts 256
    contexts,        \* heap of Context objects: id -> attributes
    usedArrays,      \* heap of _usedContextAttributes arrays: id -> set of keys
    idCounter,       \* allocation counter for cache entries and promises
    promises,        \* the prepare promises that are not settled yet
    conf,            \* per component: the policy hooks of its class
    prog,            \* per component: what doRender / doPrepare do
    log,             \* the hooks invoked by the last operation, in order
    ret,             \* what the last operation returned or threw
    hist,            \* every operation so far with what it returned and invoked
    steps,           \* number of operations performed so far
    interruptChecks, \* the renders of the last operation: was shouldInterruptRender asked
    cacheObj,        \* a Cache or HashCache object used on its own
    cacheOp          \* the last operation on cacheObj with what it returned

vars == <<comp, state, renderStack, renderState, interruptedComponents,
          rerenderInterruptedTimeout, unmountedComponents, disappearHandlersTimeout,
          contexts, usedArrays, idCounter, promises, conf, prog, log, ret, hist, steps,
          interruptChecks, cacheObj, cacheOp>>

-----------------------------------------------------------------------------
(* Bounds of the model *)

\* The largest maximum size given to a cache used on its own.
MaxCacheSize == 2

\* HashCache.keysOrder is never compacted: setEntry is taken while it is
\* shorter than this.
MaxKeysOrder == 5

\* Number of times the prepare loop of one operation is followed.
MaxPrepareIterations == 12

\* Number of operations in a behaviour.
MaxSteps == 4

\* Number of operations in a behaviour of the failure scenarios, which need
\* a pass, a rejection, an error pass, a state change, a pending pass, a
\* fulfilment and a final pass.
MaxFailSteps == 7

-----------------------------------------------------------------------------
(* Universe *)

Comp == {"R", "A", "B", "C"}
NoComp == "none"
Keys == {"k1", "k2"}
Attrs == {"k1", "k2", "m"}
Vals == {"v0", "v1"}
Args == {"x", "y"}
\* The value of an attribute that is not set, and of an empty result.
Undefined == "undefined"

\* Phase (Component.ts 41-49)
CREATING == 0
MOUNTING == 1
PREPARING == 2
RENDERING == 3
RENDERED == 4
UNMOUNTING == 5
RESTORING == 6

\* Recursion limit of the render-after-render loop (Component.ts 1183)
RENDER_RECURSION_LIMIT == 10

-----------------------------------------------------------------------------
(* Insertion-ordered maps (JavaScript Map): sequences of [k, v] pairs *)

EmptyMap == << >>

MapHas(m, k) == \E i \in 1..Len(m) : m[i].k = k

MapIndex(m, k) == CHOOSE i \in 1..Len(m) : m[i].k = k

MapGet(m, k) == m[MapIndex(m, k)].v

MapSet(m, k, v) ==
    IF MapHas(m, k)
    THEN [m EXCEPT ![MapIndex(m, k)] = [k |-> k, v |-> v]]
    ELSE Append(m, [k |-> k, v |-> v])

RECURSIVE MapDelete(_, _)
MapDelete(m, k) ==
    IF m = << >> THEN << >>
    ELSE IF Head(m).k = k THEN Tail(m)
    ELSE <<Head(m)>> \o MapDelete(Tail(m), k)

MapKeys(m) == {m[i].k : i \in 1..Len(m)}

-----------------------------------------------------------------------------
(* The scan cache, class Cache (src/unnamed/part_004) *)

\* Cache.MISSING
MISSING == [missing |-> TRUE]

\* _findEntry: index of the first entry whose key equals `key`, 0 for -1.
\* The render argument is compared with sameShallow, which on the primitive
\* arguments used here is sameValueZero.
findEntry(entries, key) ==
    IF \E i \in 1..Len(entries) : entries[i].key = key
    THEN CHOOSE i \in 1..Len(entries) :
            /\ entries[i].key = key
            /\ \A j \in 1..(i - 1) : entries[j].key # key
    ELSE 0

\* setEntry that moves an updated entry to the front
CacheSetEntryToFront(entries, maxSize, key, value) ==
    LET others == SelectSeq(entries, LAMBDA e : e.key # key)
        added == <<[key |-> key, value |-> value]>> \o others
    IN  IF maxSize = 0 THEN << >>
        ELSE IF Len(added) > maxSize THEN SubSeq(added, 1, maxSize) ELSE added

\* setEntry
CacheSetEntry(entries, maxSize, key, value) ==
    LET existingIndex == findEntry(entries, key) IN
    IF existingIndex > 0
    THEN [entries EXCEPT ![existingIndex].value = value]
    ELSE LET added == IF maxSize # 0
                      THEN <<[key |-> key, value |-> value]>> \o entries
                      ELSE entries
         IN  IF maxSize >= 0 /\ Len(added) > maxSize
             THEN SubSeq(added, 1, Len(added) - 1)
             ELSE added

\* getEntry that never finds the key
CacheGetEntryMiss(entries, key) == MISSING

\* getEntry
CacheGetEntry(entries, key) ==
    LET index == findEntry(entries, key) IN
    IF index > 0 THEN entries[index].value ELSE MISSING

-----------------------------------------------------------------------------
(* The hash cache, class HashCache (src/unnamed/part_005) *)

\* A HashCache object is [kind, maxSize, keyHash, entries, keysOrder]:
\* `entries` is the Map from hash to value, kept as the sequence of its
\* [key, value] pairs in insertion order; a slot of `keysOrder` is <<hash>>,
\* or << >> for null.

\* setEntry.  `keyToDelete && keyToDelete !== hash` skips the null slots, the
\* slots holding a falsy hash (the empty string) and the hash being set.
HashCacheSetEntry(c, key, value) ==
    LET hash == c.keyHash[key]
        deletable == {i \in 1..Len(c.keysOrder) :
                         /\ c.keysOrder[i] # << >>
                         /\ c.keysOrder[i][1] # ""
                         /\ c.keysOrder[i][1] # hash}
        evicted == IF c.maxSize >= 0 /\ Len(c.entries) >= c.maxSize /\ deletable # {}
                   THEN LET i == CHOOSE i \in deletable : \A j \in deletable : i <= j
                        IN  [c EXCEPT !.entries = SelectSeq(@, LAMBDA e : e.key # c.keysOrder[i][1]),
                                      !.keysOrder[i] = << >>]
                   ELSE c
        existingIndex == findEntry(evicted.entries, hash)
    IN  IF c.maxSize # 0
        THEN IF existingIndex = 0
             THEN [evicted EXCEPT !.keysOrder = Append(@, <<hash>>),
                                  !.entries = Append(@, [key |-> hash, value |-> value])]
             ELSE [evicted EXCEPT !.entries[existingIndex].value = value]
        ELSE evicted

\* getEntry with the default value Cache.MISSING
HashCacheGetEntry(c, key) == CacheGetEntry(c.entries, c.keyHash[key])

-----------------------------------------------------------------------------
(* The mutable world threaded through the engine *)

World ==
    [comp |-> comp, state |-> state, renderStack |-> renderStack,
     renderState |-> renderState, interruptedComponents |-> interruptedComponents,
     rerenderInterruptedTimeout |-> rerenderInterruptedTimeout,
     unmountedComponents |-> unmountedComponents,
     disappearHandlersTimeout |-> disappearHandlersTimeout,
     contexts |-> contexts, usedArrays |-> usedArrays, idCounter |-> idCounter,
     promises |-> promises, log |-> << >>, ret |-> [kind |-> "none", val |-> << >>],
     interruptChecks |-> << >>]

\* Sequencing: the value of e is computed once and the computation F
\* continues with it, as a statement followed by the rest of a function body.
Bind(e, F(_)) == CHOOSE r \in {F(x) : x \in {e}} : TRUE

\* A hook of component c is invoked (or, for "render", its render method
\* is called from inside a pass).
Log(w, hook, c) == [w EXCEPT !.log = Append(@, <<hook, c>>)]

SetC(w, c, f, v) == [w EXCEPT !.comp[c][f] = v]

Return(w, kind, val) == [w EXCEPT !.ret = [kind |-> kind, val |-> val]]

\* Errors are named by strings; RenderPending is the pending signal.
NoError == "noerror"
RenderPending == "RenderPending"

\* Singleton RENDER_INTERRUPT (Component.ts 75)
RENDER_INTERRUPT == <<"RENDER_INTERRUPT">>

\* new RebackInternalData (Component.ts 1417-1444), with the uncommon data,
\* root data and children data a component acquires lazily
\* (getUncommonData, getRootData, getChildrenData) laid out flat.
\* A context, a used-attributes array, a promise or a cache entry is named by
\* its identity, a positive number; 0 stands for null.
InitialData(usedId, errInit) ==
    [phase |-> CREATING, mounted |-> FALSE, prepared |-> FALSE, keptMounted |-> FALSE,
     avoidRenderAfterRender |-> FALSE, needsRenderAfterRender |-> FALSE,
     needsPrepareAfterPrepare |-> FALSE, errorDuringInitialize |-> errInit,
     renderRootWasInterrupted |-> FALSE,
     _renderParent |-> NoComp, _context |-> 0, _prepare |-> 0,
     _prepareResult |-> <<Undefined>>, _changedAttributesSincePrepare |-> {},
     _renderCache |-> << >>, _currentlyUsedCache |-> 0, _renderResult |-> <<Undefined>>,
     _usedContextAttributes |-> usedId,
     hasChildrenData |-> FALSE, prepareChildren |-> EmptyMap, renderedChildren |-> EmptyMap,
     modifiedPrepareContextCache |-> [base |-> 0, modifications |-> << >>, result |-> 0],
     modifiedContextCache |-> [base |-> 0, modifications |-> << >>, result |-> 0],
     _pendingRender |-> TRUE, _pendingCompleteRender |-> TRUE,
     renderError |-> IF errInit THEN "InitError" ELSE NoError,
     needsRenderTimeout |-> FALSE, scheduledRenderRequests |-> 0,
     onRequestRender |-> << >>,
     interruptGeneration |-> 0, componentCount |-> 0]

\* getChildrenData (Component.ts 1311-1322)
getChildrenData(w, c) == SetC(w, c, "hasChildrenData", TRUE)

\* _invalidatePrepareCache that keeps what was prepared
keepPrepareCache(w, c) == w

\* _invalidatePrepareCache (Component.ts 990-1001)
_invalidatePrepareCache(w, c) ==
    [w EXCEPT !.comp[c]._prepare = 0,
              !.comp[c].prepared = FALSE,
              !.comp[c]._prepareResult = <<Undefined>>,
              !.comp[c].prepareChildren = EmptyMap]

\* _invalidateRenderCache that forgets every render error
_invalidateRenderCacheForgetting(w, c) ==
    [w EXCEPT !.comp[c]._renderCache = << >>,
              !.comp[c]._currentlyUsedCache = 0,
              !.comp[c].renderError = NoError]

\* _invalidateRenderCache (Component.ts 1003-1016)
_invalidateRenderCache(w, c) ==
    [w EXCEPT !.comp[c]._renderCache = << >>,
              !.comp[c]._currentlyUsedCache = 0,
              !.comp[c].renderError =
                  IF w.comp[c].errorDuringInitialize THEN @ ELSE NoError]

\* _resetPendingRender (Component.ts 826-833)
_resetPendingRender(w, c) ==
    [w EXCEPT !.comp[c]._pendingRender = TRUE,
              !.comp[c]._pendingCompleteRender = TRUE]

RECURSIVE _forceRender(_, _, _)
RECURSIVE _forcePrepare(_, _)

\* _requestRender that does not reach the parent
_requestRenderLocal(w, c) ==
    IF ~w.comp[c].needsRenderTimeout
    THEN [w EXCEPT !.comp[c].needsRenderTimeout = TRUE,
                   !.comp[c].scheduledRenderRequests = @ + 1]
    ELSE w

\* _requestRender that treats every child as a child of the render step
_requestRenderAsRenderChild(w, c) ==
    LET parent == w.comp[c]._renderParent IN
    IF parent # NoComp
    THEN _forceRender(w, parent, FALSE)
    ELSE IF ~w.comp[c].needsRenderTimeout
         THEN [w EXCEPT !.comp[c].needsRenderTimeout = TRUE,
                        !.comp[c].scheduledRenderRequests = @ + 1]
         ELSE w

\* _requestRender that hands the scheduler a callback at every request
_requestRenderUnbatched(w, c) ==
    LET parent == w.comp[c]._renderParent IN
    IF parent # NoComp
    THEN IF w.comp[parent].hasChildrenData /\ MapHas(w.comp[parent].prepareChildren, c)
         THEN _forcePrepare(w, parent)
         ELSE _forceRender(w, parent, FALSE)
    ELSE [w EXCEPT !.comp[c].needsRenderTimeout = TRUE,
                   !.comp[c].scheduledRenderRequests = @ + 1]

\* _requestRender (Component.ts 835-861).  scheduledRenderRequests counts
\* the callbacks handed to the scheduler that have not run yet.
_requestRender(w, c) ==
    LET parent == w.comp[c]._renderParent IN
    IF parent # NoComp
    THEN IF w.comp[parent].hasChildrenData /\ MapHas(w.comp[parent].prepareChildren, c)
         THEN _forcePrepare(w, parent)
         ELSE _forceRender(w, parent, FALSE)
    ELSE IF ~w.comp[c].needsRenderTimeout
         THEN [w EXCEPT !.comp[c].needsRenderTimeout = TRUE,
                        !.comp[c].scheduledRenderRequests = @ + 1]
         ELSE w

\* _forceRender (Component.ts 1018-1039)
_forceRender(w, c, notDuringRender) ==
    Bind(_invalidateRenderCache(w, c), LAMBDA w1 :
        LET phase == w1.comp[c].phase IN
        IF phase = RENDERING /\ ~w1.comp[c].avoidRenderAfterRender /\ ~notDuringRender
        THEN SetC(w1, c, "needsRenderAfterRender", TRUE)
        ELSE IF phase # RENDERED /\ phase # RESTORING
        THEN w1
        ELSE Bind(_resetPendingRender(w1, c), LAMBDA w2 : _requestRender(w2, c)))

\* _forcePrepare (Component.ts 1041-1054)
_forcePrepare(w, c) ==
    LET phase == w.comp[c].phase IN
    IF phase = PREPARING
    THEN SetC(w, c, "needsPrepareAfterPrepare", TRUE)
    ELSE IF phase # RENDERED /\ phase # RESTORING /\ phase # RENDERING
    THEN w
    ELSE Bind(_invalidatePrepareCache(w, c), LAMBDA w1 : _forceRender(w1, c, FALSE))

\* scheduleDisappearHandlers (Component.ts 384-398): the scheduling part
scheduleDisappearHandlers(w) ==
    IF ~w.disappearHandlersTimeout
    THEN [w EXCEPT !.disappearHandlersTimeout = TRUE]
    ELSE w

RECURSIVE _unmountFromParent(_, _, _)
RECURSIVE unmountChildren(_, _, _)

\* iterChildren(childrenData.renderedChildren, child => _unmountFromParent(child, .., that))
\* (Component.ts 792-794); the map iterated is the one read before the loop.
unmountChildren(w, children, that) ==
    IF children = << >> THEN w
    ELSE Bind(_unmountFromParent(w, Head(children).k, that), LAMBDA w1 :
              unmountChildren(w1, Tail(children), that))

\* _unmountFromParent that leaves the children of c mounted
_unmountFromParentShallow(w, c, parent) ==
    IF w.comp[c]._renderParent # parent THEN w
    ELSE
        Bind(_invalidateRenderCache(
                 _invalidatePrepareCache(SetC(w, c, "phase", UNMOUNTING), c), c),
             LAMBDA w3 :
        Bind(Log(w3, "onUnmount", c), LAMBDA w4 :
            scheduleDisappearHandlers(
                [w4 EXCEPT !.comp[c].mounted = FALSE,
                           !.comp[c]._renderParent = NoComp,
                           !.unmountedComponents = Append(@, c)])))

\* _unmountFromParent (Component.ts 770-824)
_unmountFromParent(w, c, parent) ==
    LET isMountedIntoAnotherParent == w.comp[c]._renderParent # parent IN
    IF isMountedIntoAnotherParent THEN w
    ELSE
        Bind(IF w.comp[c].hasChildrenData
             THEN unmountChildren(w, w.comp[c].renderedChildren, c)
             ELSE w, LAMBDA w1 :
        Bind(_invalidatePrepareCache(SetC(w1, c, "phase", UNMOUNTING), c), LAMBDA w2 :
        Bind(_invalidateRenderCache(w2, c), LAMBDA w3 :
        Bind(IF ~w3.comp[c].errorDuringInitialize
             THEN Log(w3, "onUnmount", c) ELSE w3, LAMBDA w4 :
        Bind([w4 EXCEPT !.comp[c].mounted = FALSE,
                        !.comp[c]._renderParent = NoComp], LAMBDA w5 :
            IF ~w5.comp[c].errorDuringInitialize
            THEN scheduleDisappearHandlers(
                     [w5 EXCEPT !.unmountedComponents = Append(@, c)])
            ELSE w5)))))

\* _unmountPreviousChildren (Component.ts 755-768)
RECURSIVE _unmountPreviousChildren(_, _, _, _)
_unmountPreviousChildren(w, prevChildren, nextChildren, that) ==
    IF prevChildren = << >> THEN w
    ELSE Bind(IF ~MapHas(nextChildren, Head(prevChildren).k)
              THEN _unmountFromParent(w, Head(prevChildren).k, that)
              ELSE w, LAMBDA w1 :
              _unmountPreviousChildren(w1, Tail(prevChildren), nextChildren, that))

-----------------------------------------------------------------------------
(* Context (src/src/Context.ts) and context modifications (src/src/util.ts) *)

\* import emptyContext from './EmptyContext' (Component.ts 15): the context
\* object with no attributes; it is the first object of the context heap.
emptyContext == 1

EmptyAttributes == [k \in Keys |-> Undefined]

\* A hook that returns null instead of a modifications object.
NullModifications == [k \in {"null"} |-> "null"]

\* Context.change (Context.ts 126-148): a new context object when a
\* modification differs from the existing value, the same object otherwise.
ContextChange(w, base, modifications) ==
    LET attrs == w.contexts[base]
        differs == \E k \in DOMAIN modifications : modifications[k] # attrs[k]
    IN  IF differs
        THEN [w |-> [w EXCEPT !.contexts = Append(@,
                        [k \in Keys |-> IF k \in DOMAIN modifications
                                        THEN modifications[k] ELSE attrs[k]])],
              v |-> Len(w.contexts) + 1]
        ELSE [w |-> w, v |-> base]

\* applyModificationsCached that never reuses the context it produced
applyModificationsUncached(w, c, base, modifications, cacheName) ==
    IF modifications = NullModifications
    THEN [w |-> w, v |-> base]
    ELSE [w |-> [w EXCEPT !.contexts = Append(@,
                    [k \in Keys |-> IF k \in DOMAIN modifications
                                    THEN modifications[k] ELSE w.contexts[base][k]])],
          v |-> Len(w.contexts) + 1]

\* applyModificationsCached (util.ts 61-73); cacheName names the cache object
\* of component c.  sameShallow (util.ts 21-50) on two modification objects
\* with primitive values is equality of their keys and values.
applyModificationsCached(w, c, base, modifications, cacheName) ==
    LET cache == w.comp[c][cacheName] IN
    IF modifications = NullModifications
    THEN [w |-> w, v |-> base]
    ELSE IF cache.base = base /\ cache.modifications = modifications
    THEN [w |-> w, v |-> cache.result]
    ELSE Bind(ContextChange(w, base, modifications), LAMBDA r :
              [w |-> SetC(r.w, c, cacheName,
                          [base |-> base, modifications |-> modifications,
                           result |-> r.v]),
               v |-> r.v])

\* The hooks getPrepareContextModifications / getContextModifications of the
\* component classes modelled: the component publishes the state attributes
\* named in conf (as the test components of src/unnamed/part_007 763-901 do),
\* or returns null as the default hooks do (Component.ts 1917-1923).
getPrepareContextModifications(w, c) ==
    IF conf[c].prepareProvides = {} THEN NullModifications
    ELSE [k \in conf[c].prepareProvides |-> w.state[c][k]]

getContextModifications(w, c) ==
    IF conf[c].provides = {} THEN NullModifications
    ELSE [k \in conf[c].provides |-> w.state[c][k]]

\* getModifiedContext (Component.ts 1595-1623)
getModifiedContext(w, c) ==
    LET base == IF w.comp[c]._context # 0 THEN w.comp[c]._context ELSE emptyContext IN
    Bind(getChildrenData(w, c), LAMBDA w1 :
    Bind(applyModificationsCached(w1, c, base, getPrepareContextModifications(w, c),
                                  "modifiedPrepareContextCache"), LAMBDA p :
        IF ~p.w.comp[c].prepared
        THEN p
        ELSE applyModificationsCached(p.w, c, p.v, getContextModifications(w, c),
                                      "modifiedContextCache")))

\* didContextChange that takes every new context object for a change
didContextChangeAlways(w, newContext, prevContext, used) == newContext # prevContext

\* didContextChange that never reports a change
didContextChangeNever(w, newContext, prevContext, used) == FALSE

\* didContextChange (Component.ts 217-229); `used` is the set of keys in the
\* bitfield (anyUsedAttribute, Context.ts 47-62)
didContextChange(w, newContext, prevContext, used) ==
    IF newContext = 0 \/ newContext = prevContext
    THEN FALSE
    ELSE \E name \in used :
            \/ prevContext = 0
            \/ w.contexts[prevContext][name] # w.contexts[newContext][name]

\* addUsedContextAttributes (Context.ts 69-84): target |= source, in place
addUsedContextAttributes(w, target, source) ==
    [w EXCEPT !.usedArrays[target] = @ \cup w.usedArrays[source]]

\* A new array object holding `keys` ([] or slice(0)); its identity is w.v.
NewUsedArray(w, keys) ==
    [w |-> [w EXCEPT !.usedArrays = Append(@, keys)], v |-> Len(w.usedArrays) + 1]

\* _updateContext (Component.ts 931-958); givenContext is 0 when none is given
_updateContext(w, c, parent, givenContext) ==
    LET prevContext == w.comp[c]._context IN
    Bind(IF givenContext # 0 THEN [w |-> w, v |-> givenContext]
         ELSE IF parent # NoComp THEN getModifiedContext(w, parent)
         ELSE [w |-> w, v |-> emptyContext], LAMBDA m :
        IF m.v # prevContext
        THEN Bind(SetC(m.w, c, "_context", m.v), LAMBDA w1 :
             Bind(IF didContextChange(w1, m.v, prevContext,
                         w1.usedArrays[w1.comp[c]._usedContextAttributes])
                  THEN _invalidateRenderCache(_invalidatePrepareCache(w1, c), c)
                  ELSE w1, LAMBDA w2 :
                 IF ~w2.comp[c].errorDuringInitialize
                 THEN Log(w2, "onReceiveContext", c)
                 ELSE w2))
        ELSE m.w)

\* _remount that calls onMount before onAppear
_remountMountFirst(w, c, wasMounted, prevParent, newParent, context) ==
    Bind(IF wasMounted THEN _unmountFromParent(w, c, prevParent) ELSE w, LAMBDA w1 :
    Bind(_updateContext(w1, c, newParent, context), LAMBDA w2 :
        IF ~w2.comp[c].errorDuringInitialize
        THEN Bind(Log(w2, "onMount", c), LAMBDA w3 :
                 IF ~wasMounted THEN Log(w3, "onAppear", c) ELSE w3)
        ELSE w2))

\* _remount that calls onAppear at every mount
_remountAppearing(w, c, wasMounted, prevParent, newParent, context) ==
    Bind(IF wasMounted THEN _unmountFromParent(w, c, prevParent) ELSE w, LAMBDA w1 :
    Bind(_updateContext(w1, c, newParent, context), LAMBDA w2 :
        Log(Log(w2, "onAppear", c), "onMount", c)))

\* _remount (Component.ts 908-929)
_remount(w, c, wasMounted, prevParent, newParent, context) ==
    Bind(IF wasMounted THEN _unmountFromParent(w, c, prevParent) ELSE w, LAMBDA w1 :
    Bind(_updateContext(w1, c, newParent, context), LAMBDA w2 :
        IF ~w2.comp[c].errorDuringInitialize
        THEN Log(IF ~wasMounted THEN Log(w2, "onAppear", c) ELSE w2, "onMount", c)
        ELSE w2))

\* getCurrentRenderParent (Component.ts 147-153)
getCurrentRenderParent(w) ==
    IF Len(w.renderStack) > 0 THEN w.renderStack[Len(w.renderStack)] ELSE NoComp

\* getCurrentRenderRoot (Component.ts 131-137)
getCurrentRenderRoot(w) ==
    IF Len(w.renderStack) > 0 THEN w.renderStack[1] ELSE NoComp

\* _enterRender (Component.ts 863-906)
_enterRender(w, c, context) ==
    LET prevParent == w.comp[c]._renderParent
        newParent == getCurrentRenderParent(w)
        wasMounted == w.comp[c].mounted
    IN  Bind([w EXCEPT !.comp[c].keptMounted = FALSE,
                       !.comp[c].phase = MOUNTING,
                       !.comp[c]._pendingRender = FALSE,
                       !.comp[c].mounted = TRUE,
                       !.comp[c]._renderParent = newParent,
                       !.comp[c].needsRenderAfterRender = FALSE], LAMBDA w1 :
            IF newParent # prevParent \/ (newParent = NoComp /\ ~wasMounted)
            THEN _remount(w1, c, wasMounted, prevParent, newParent, context)
            ELSE _updateContext(w1, c, newParent, context))

\* _childFinishedRender (Component.ts 400-411).  A child info is a new object
\* (identity eid) holding a copy of the child's used-attributes array.
_childFinishedRender(w, this, child, result) ==
    Bind(NewUsedArray(w, w.usedArrays[w.comp[child]._usedContextAttributes]), LAMBDA a :
    Bind([a.w EXCEPT
            !.idCounter = @ + 1,
            !.comp[this].hasChildrenData = TRUE,
            !.comp[this].renderedChildren =
                MapSet(@, child,
                       [eid |-> a.w.idCounter + 1, result |-> result, instance |-> child,
                        hasChildren |-> a.w.comp[child].hasChildrenData,
                        children |-> a.w.comp[child].renderedChildren,
                        context |-> a.w.comp[child]._context,
                        usedContextAttributes |-> a.v,
                        descendantCount |-> 0])], LAMBDA w1 :
        addUsedContextAttributes(w1, w1.comp[this]._usedContextAttributes,
                                 w1.comp[child]._usedContextAttributes)))

RECURSIVE _useCache(_, _, _)
RECURSIVE useCacheChildren(_, _, _)

\* The loop over the cached children in _useCache (Component.ts 523-541)
useCacheChildren(w, that, children) ==
    IF children = << >> THEN w
    ELSE
        LET entry == Head(children).v
            child == entry.instance
        IN  Bind(IF w.comp[child]._renderParent # that
                 THEN _remount([w EXCEPT !.comp[child]._renderParent = that,
                                         !.comp[child].mounted = TRUE,
                                         !.comp[child].phase = RESTORING],
                               child, w.comp[child].mounted,
                               w.comp[child]._renderParent, that, 0)
                 ELSE w, LAMBDA w1 :
            Bind(_useCache(SetC(w1, child, "phase", RENDERED), child, entry), LAMBDA w2 :
                useCacheChildren(w2, that, Tail(children))))

\* _useCache (Component.ts 492-542)
_useCache(w, c, cacheEntry) ==
    LET used == cacheEntry.usedContextAttributes
        parent == w.comp[c]._renderParent
    IN  Bind([w EXCEPT !.comp[c]._renderResult = cacheEntry.result,
                       !.comp[c].hasChildrenData = @ \/ cacheEntry.hasChildren,
                       !.comp[c].renderedChildren =
                           IF cacheEntry.hasChildren THEN cacheEntry.children ELSE EmptyMap,
                       !.comp[c]._usedContextAttributes = used], LAMBDA w3 :
        Bind(IF parent # NoComp
             THEN addUsedContextAttributes(w3, w3.comp[parent]._usedContextAttributes, used)
             ELSE w3, LAMBDA w4 :
        Bind(Log(w4, "onCachedRender", c), LAMBDA w5 :
            IF cacheEntry.eid = w5.comp[c]._currentlyUsedCache
            THEN w5
            ELSE IF ~cacheEntry.hasChildren
            THEN SetC(w5, c, "_currentlyUsedCache", cacheEntry.eid)
            ELSE useCacheChildren(SetC(w5, c, "_currentlyUsedCache", cacheEntry.eid),
                                  c, cacheEntry.children))))

-----------------------------------------------------------------------------
(* The overridable hooks of the component classes *)

\* One statement of a doRender / doPrepare body.  A statement runs only if
\* the hook's render argument is onArg (any argument when onArg is "").
\*   render : the result of child.render / renderRequired / renderOptional
\*            (mode) with argument arg ("same": the hook's own argument),
\*            only if state attribute key has value val (always when key is "")
\*   renderRoot: child.renderRoot(arg) with the hook's own argument
\*   tryRender: child.render(arg) inside try ... catch: the exception is
\*            replaced by the value "caught"
\*   forceRender, forcePrepare: child.forceRender(), child.forcePrepare()
\*   get    : this.getContext().get(key)
\*   state  : this.state[key]
\*   throwIf: throw an error if this.state[key] is val (always when key is "")
\*   throwIfGot: throw an error if val is among the values computed so far
Stmt(op, child, mode, arg, key, val, onArg) ==
    [op |-> op, child |-> child, mode |-> mode, arg |-> arg, key |-> key,
     val |-> val, onArg |-> onArg]
Rn(child, mode, onArg) == Stmt("render", child, mode, "same", "", "", onArg)
RnIf(child, key, val) == Stmt("render", child, "plain", "same", key, val, "")
Get(key, onArg) == Stmt("get", NoComp, "", "", key, "", onArg)
St(key) == Stmt("state", NoComp, "", "", key, "", "")
ThrowIf(key, val) == Stmt("throwIf", NoComp, "", "", key, val, "")
ThrowIfGot(val) == Stmt("throwIfGot", NoComp, "", "", "", val, "")

\* The error a hook of component c throws.
ErrorOf(c) == "Error:" \o c

\* A shouldPrepare that always asks for a new prepare
shouldPrepareAlways(c, changedAttributes) == TRUE

\* shouldPrepare: the default (Component.ts 1963-1965) or an override that
\* always / never prepares (src/unnamed/part_007 930-935)
shouldPrepare(c, changedAttributes) ==
    CASE conf[c].shouldPrepare = "default" -> changedAttributes # {}
      [] conf[c].shouldPrepare = "always" -> TRUE
      [] OTHER -> FALSE

\* shouldRender: the default (Component.ts 1967-1971) or an override
shouldRender(c) == conf[c].shouldRender = "always"

\* shouldInterruptRender: the default (Component.ts 1977-1979) or an
\* override asking for an interrupt at every opportunity
shouldInterruptRender(c, generation, components) ==
    conf[c].shouldInterruptRender = "always"

\* doRenderPending
doRenderPendingResult(c, arg) == <<"pending", c, arg>>

\* doRenderError
doRenderErrorResult(c, arg, error) == <<"error", c, arg, error>>

-----------------------------------------------------------------------------
(* Rendering *)

RECURSIVE render(_, _, _, _, _, _)
RECURSIVE renderRoot(_, _, _, _)
RECURSIVE RunBody(_, _, _, _, _)

\* this.getContext().get(name): _getBoundContext (Component.ts 965-980) and
\* Context.get (Context.ts 103-118), which sets the key's bit in the
\* component's current used-attributes array
ContextGet(w, c, name) ==
    [w |-> [w EXCEPT !.usedArrays[w.comp[c]._usedContextAttributes] = @ \cup {name}],
     v |-> w.contexts[w.comp[c]._context][name]]

\* Runs the statements stmts of a hook body of component c, called with
\* argument arg; acc collects the values the body has computed.
\* Leaves in ret the values ("ok") or the exception thrown ("throw").
RunBody(w, c, stmts, arg, acc) ==
    IF stmts = << >> THEN Return(w, "ok", acc)
    ELSE
        LET s == Head(stmts)
            rest == Tail(stmts)
            skip == \/ (s.onArg # "" /\ s.onArg # arg)
                    \/ (s.op = "render" /\ s.key # "" /\ w.state[c][s.key] # s.val)
                    \/ (s.op = "throwIf" /\ s.key # "" /\ w.state[c][s.key] # s.val)
                    \/ (s.op = "throwIfGot" /\ \A i \in 1..Len(acc) : acc[i] # s.val)
        IN  IF ~skip /\ s.op \in {"throwIf", "throwIfGot"}
            THEN Return(w, "throw", ErrorOf(c))
            ELSE Bind(IF skip THEN Return(w, "ok", << >>)
                      ELSE IF s.op = "get"
                      THEN Return(ContextGet(w, c, s.key).w, "ok",
                                  <<ContextGet(w, c, s.key).v>>)
                      ELSE IF s.op = "state"
                      THEN Return(w, "ok", <<w.state[c][s.key]>>)
                      ELSE IF s.op = "renderRoot"
                      THEN renderRoot(w, s.child, arg, FALSE)
                      ELSE IF s.op = "tryRender"
                      THEN Bind(render(w, s.child, arg, 0, FALSE, FALSE), LAMBDA t :
                               IF t.ret.kind = "throw"
                               THEN Return(t, "ok", <<"caught">>) ELSE t)
                      ELSE IF s.op = "forceRender"
                      THEN Return(_forceRender(w, s.child, FALSE), "ok", << >>)
                      ELSE IF s.op = "forcePrepare"
                      THEN Return(_forcePrepare(w, s.child), "ok", << >>)
                      ELSE render(w, s.child, IF s.arg = "same" THEN arg ELSE s.arg,
                                  0, s.mode = "required", s.mode = "optional"),
                      LAMBDA r :
                          IF r.ret.kind = "throw" THEN r
                          ELSE RunBody(r, c, rest, arg, acc \o r.ret.val))

\* _doPrepare (Component.ts 544-606).  Returns the error (NoError for null)
\* in ret.val.  doPrepare runs its statements and then returns, according to
\* the class, nothing (the default hook, Component.ts 1946-1948), a value
\* computed from what it read, or a promise that is not settled yet.
_doPrepare(w, c) ==
    Bind(Log([w EXCEPT !.comp[c].prepared = FALSE,
                       !.comp[c].needsPrepareAfterPrepare = FALSE,
                       !.comp[c].phase = PREPARING], "doPrepare", c), LAMBDA w1 :
    Bind(IF conf[c].doPrepare = "default"
         THEN Return(w1, "ok", <<Undefined>>)
         ELSE RunBody(w1, c, prog[c].prepare, "", << >>), LAMBDA b :
        IF b.ret.kind = "throw"
        THEN Return(SetC(b, c, "_prepare", 0), "error", b.ret.val)
        ELSE IF conf[c].doPrepare = "async"
        THEN Return([b EXCEPT !.idCounter = @ + 1,
                              !.comp[c]._prepare = b.idCounter + 1,
                              !.promises = @ \cup {[id |-> b.idCounter + 1, c |-> c]}],
                    "error", RenderPending)
        ELSE Return([b EXCEPT !.comp[c].prepared = TRUE,
                              !.comp[c]._prepareResult =
                                  IF conf[c].doPrepare = "default" THEN <<Undefined>>
                                  ELSE <<"prepared", c>> \o b.ret.val,
                              !.comp[c]._prepare = 0],
                    "error", NoError)))

\* A prepare promise that has not been settled: prepare.isPending()
promiseIsPending(w, prepare) == \E p \in w.promises : p.id = prepare

RECURSIVE addUsedOfChildren(_, _, _)
\* iterChildren(pc, child => addUsedContextAttributes(data._used.., child._reback._used..))
\* (Component.ts 443-445)
addUsedOfChildren(w, c, children) ==
    IF children = << >> THEN w
    ELSE Bind(addUsedContextAttributes(w, w.comp[c]._usedContextAttributes,
                                       w.comp[Head(children).k]._usedContextAttributes),
              LAMBDA w1 : addUsedOfChildren(w1, c, Tail(children)))

RECURSIVE prepareLoop(_, _)
\* The do ... while loop of _doRender (Component.ts 438-450).  The loop has
\* no limit of its own: when doPrepare has run MaxPrepareIterations times in
\* the operation and asks for one more, the model stops following the loop
\* and the render ends with the error "LoopForever".
prepareLoop(w, c) ==
    Bind(_doPrepare(w, c), LAMBDA p :
    Bind(IF p.comp[c].hasChildrenData
         THEN addUsedOfChildren(
                  SetC(p, c, "prepareChildren", p.comp[c].renderedChildren),
                  c, p.comp[c].renderedChildren)
         ELSE p, LAMBDA w1 :
        IF p.ret.val # NoError THEN Return(w1, "throw", p.ret.val)
        ELSE IF w1.comp[c].needsPrepareAfterPrepare
        THEN IF Cardinality({i \in 1..Len(w1.log) : w1.log[i] = <<"doPrepare", c>>})
                    < MaxPrepareIterations
             THEN prepareLoop(w1, c)
             ELSE Return(w1, "throw", "LoopForever")
        ELSE Return(w1, "ok", << >>)))

\* The hook doRender(arg, prepareResult)
doRender(w, c, arg, prepareResult) ==
    Bind(RunBody(Log(w, "doRender", c), c, prog[c].render, arg, << >>), LAMBDA b :
        IF b.ret.kind = "throw" THEN b
        ELSE Return(b, "ok", <<"(", c, arg>> \o prepareResult \o b.ret.val \o <<")">>))

\* The cache entry _doRender creates (Component.ts 466-476); previousCount is
\* renderState.renderComponentCount before doRender.  The entry is a new
\* object (identity eid) holding a copy of the used-attributes array.
storeCacheEntry(w, c, arg, previousCount) ==
    Bind(NewUsedArray(w, w.usedArrays[w.comp[c]._usedContextAttributes]), LAMBDA a :
        [a.w EXCEPT
            !.idCounter = @ + 1,
            !.comp[c]._renderCache =
                CacheSetEntry(@, conf[c].maxRenderCacheSize, arg,
                    [eid |-> a.w.idCounter + 1, result |-> w.ret.val, instance |-> c,
                     hasChildren |-> a.w.comp[c].hasChildrenData,
                     children |-> a.w.comp[c].renderedChildren,
                     context |-> a.w.comp[c]._context,
                     usedContextAttributes |-> a.v,
                     descendantCount |->
                         a.w.renderState.renderComponentCount - previousCount]),
            !.comp[c]._currentlyUsedCache = a.w.idCounter + 1])

\* _doRender (Component.ts 413-487)
_doRender(w, c, arg) ==
    IF w.comp[c]._prepare # 0 /\ promiseIsPending(w, w.comp[c]._prepare)
    THEN Return(w, "throw", RenderPending)
    ELSE
        Bind(IF ~w.comp[c].prepared
                \/ shouldPrepare(c, w.comp[c]._changedAttributesSincePrepare)
             THEN Bind(NewUsedArray(w, {}), LAMBDA a :
                  Bind(_invalidateRenderCache(
                           [a.w EXCEPT !.comp[c]._usedContextAttributes = a.v,
                                       !.comp[c]._changedAttributesSincePrepare = {}], c),
                       LAMBDA w1 : prepareLoop(w1, c)))
             ELSE Return(IF w.comp[c].hasChildrenData
                         THEN SetC(w, c, "renderedChildren", w.comp[c].prepareChildren)
                         ELSE w,
                         "ok", << >>), LAMBDA p :
            IF p.ret.kind = "throw" THEN p
            ELSE
                LET cached == CacheGetEntry(p.comp[c]._renderCache, arg) IN
                IF \/ cached = MISSING
                   \/ didContextChange(p, p.comp[c]._context, cached.context,
                                       p.usedArrays[cached.usedContextAttributes])
                   \/ shouldRender(c)
                THEN
                    Bind(doRender(SetC(p, c, "phase", RENDERING), c, arg,
                                  p.comp[c]._prepareResult), LAMBDA r :
                        IF r.ret.kind = "throw" THEN r
                        ELSE IF r.ret.val # RENDER_INTERRUPT
                                /\ ~r.comp[c].needsRenderAfterRender
                        THEN storeCacheEntry(r, c, arg, p.renderState.renderComponentCount)
                        ELSE r)
                ELSE
                    Bind(_useCache(p, c, cached), LAMBDA u :
                        Return([u EXCEPT !.renderState.renderComponentCount =
                                             @ + cached.descendantCount],
                               "ok", cached.result)))

\* scheduleRerenderInterrupted (Component.ts 378-382)
scheduleRerenderInterrupted(w) ==
    IF ~w.rerenderInterruptedTimeout
    THEN [w EXCEPT !.rerenderInterruptedTimeout = TRUE]
    ELSE w

\* The hook doRenderError: the default rethrows the error (Component.ts
\* 1954-1956), an override renders it (src/unnamed/part_007 674-701).
doRenderError(w, c, arg, error) ==
    LET w1 == Log(w, "doRenderError", c) IN
    IF conf[c].doRenderError = "rethrow"
    THEN Return(w1, "throw", error)
    ELSE Return(w1, "ok", doRenderErrorResult(c, arg, error))

\* The hook doRenderPending: the default returns null (Component.ts
\* 1950-1952); the classes modelled return a placeholder, or throw.
doRenderPending(w, c, arg) ==
    LET w1 == Log(w, "doRenderPending", c) IN
    IF conf[c].doRenderPending = "throw"
    THEN Return(w1, "throw", ErrorOf(c))
    ELSE Return(w1, "ok", doRenderPendingResult(c, arg))

\* The entries of prevChildren set into the new renderedChildren
\* (Component.ts 707-709)
RECURSIVE MapSetAll(_, _)
MapSetAll(m, prev) ==
    IF prev = << >> THEN m
    ELSE MapSetAll(MapSet(m, Head(prev).k, Head(prev).v), Tail(prev))

\* A registration that records only the first interrupted component of a root
registerFirstInterrupted(w, c) ==
    LET root == getCurrentRenderRoot(w) IN
    IF root # NoComp /\ ~MapHas(w.interruptedComponents, root)
    THEN [w EXCEPT !.interruptedComponents = MapSet(@, root, <<c>>),
                   !.rerenderInterruptedTimeout = TRUE]
    ELSE w

\* The interrupted component c is registered under the current render root
\* (Component.ts 672-689).
registerInterrupted(w, c) ==
    LET root == getCurrentRenderRoot(w) IN
    IF root # NoComp
    THEN scheduleRerenderInterrupted(
             [w EXCEPT !.interruptedComponents =
                  MapSet(@, root,
                         (IF MapHas(@, root) THEN MapGet(@, root) ELSE << >>) \o <<c>>)])
    ELSE w

\* mustWait that lets only renderRequired propagate pendingness
mustWaitRequiredOnly(parent, isRequired, isOptional) == isRequired

\* mustWait that does not honour renderOptional
mustWaitDespiteOptional(parent, isRequired, isOptional) ==
    \/ isRequired
    \/ (parent # NoComp /\ conf[parent].shouldWaitForChildren)

\* The condition under which a pending component makes its parent pending
\* instead of rendering through doRenderPending (Component.ts 716)
mustWait(parent, isRequired, isOptional) ==
    \/ isRequired
    \/ (parent # NoComp /\ ~isOptional /\ conf[parent].shouldWaitForChildren)

\* The end of _performRender (Component.ts 735-752), with the triple
\* [isPending, renderResult, renderError] it returns.
finishRender(w, c, hadChildrenData, prevChildren, keepExistingChildren, parent,
             isPending, renderResult, renderError) ==
    Bind([w EXCEPT !.renderStack = SubSeq(@, 1, Len(@) - 1)], LAMBDA w6 :
    Bind(IF ~keepExistingChildren /\ hadChildrenData
         THEN _unmountPreviousChildren(w6, prevChildren, w6.comp[c].renderedChildren, c)
         ELSE w6, LAMBDA w7 :
        [w |-> IF parent # NoComp
               THEN _childFinishedRender(w7, parent, c, renderResult)
               ELSE w7,
         isPending |-> isPending, renderResult |-> renderResult,
         renderError |-> renderError, thrown |-> NoError]))

\* _performRender (Component.ts 608-753).  Returns the world and the triple
\* [isPending, renderResult, renderError]; `thrown` is the exception of a
\* hook that the function does not catch (NoError when it returns).
_performRender(w, c, arg, error, isRequired, isOptional, keepExistingChildren) ==
    LET hadChildrenData == w.comp[c].hasChildrenData
        prevChildren == w.comp[c].renderedChildren
        newComponents == w.renderState.renderComponentCount
                             - w.renderState.lastRenderComponentCount
        mayInterrupt == \/ w.renderState.isRenderInterrupted
                        \/ ~w.renderState.lastRenderWasInterrupted
                        \/ newComponents > 0
        shouldInterrupt ==
            /\ mayInterrupt
            /\ shouldInterruptRender(c, w.renderState.renderInterruptGeneration,
                                     newComponents)
    IN
    Bind([w EXCEPT !.comp[c].renderedChildren =
                       IF ~keepExistingChildren /\ hadChildrenData THEN EmptyMap ELSE @,
                   !.renderStack = Append(@, c),
                   !.comp[c].phase = RENDERING,
                   !.interruptChecks =
                       Append(@, [c |-> c, root |-> Head(Append(w.renderStack, c)),
                                  asked |-> mayInterrupt,
                                  count |-> w.renderState.renderComponentCount,
                                  interrupted |-> w.renderState.isRenderInterrupted]),
                   !.renderState.isRenderInterrupted = @ \/ shouldInterrupt,
                   !.renderState.renderInterruptGeneration =
                       IF shouldInterrupt /\ ~w.renderState.isRenderInterrupted
                       THEN @ + 1 ELSE @], LAMBDA w3 :
    Bind(IF shouldInterrupt THEN Return(w3, "ok", RENDER_INTERRUPT)
         ELSE IF error # NoError THEN doRenderError(w3, c, arg, error)
         ELSE _doRender(w3, c, arg), LAMBDA r :
        LET success == r.ret.kind = "ok"
            isInterrupted == success /\ r.ret.val = RENDER_INTERRUPT
            parent == r.comp[c]._renderParent
            pendingCase == isInterrupted \/ (~success /\ r.ret.val = RenderPending)
        IN
        Bind(IF isInterrupted THEN registerInterrupted(r, c) ELSE r, LAMBDA w4 :
            IF success /\ ~isInterrupted
            THEN finishRender(SetC(w4, c, "_pendingCompleteRender", FALSE), c,
                              hadChildrenData, prevChildren, keepExistingChildren, parent,
                              FALSE, r.ret.val, NoError)
            ELSE IF pendingCase
            THEN Bind(IF hadChildrenData
                      THEN SetC(w4, c, "renderedChildren",
                                MapSetAll(w4.comp[c].renderedChildren, prevChildren))
                      ELSE w4, LAMBDA w4a :
                     IF mustWait(parent, isRequired, isOptional)
                     THEN finishRender(w4a, c, hadChildrenData, prevChildren,
                                       keepExistingChildren, parent,
                                       TRUE, <<Undefined>>, NoError)
                     ELSE Bind(doRenderPending(w4a, c, arg), LAMBDA w5 :
                              IF w5.ret.kind = "throw"
                              THEN [w |-> w5, isPending |-> FALSE,
                                    renderResult |-> <<Undefined>>,
                                    renderError |-> NoError, thrown |-> w5.ret.val]
                              ELSE finishRender(w5, c, hadChildrenData, prevChildren,
                                                keepExistingChildren, parent,
                                                FALSE, w5.ret.val, NoError)))
            ELSE finishRender(w4, c, hadChildrenData, prevChildren,
                              keepExistingChildren, parent,
                              FALSE, <<Undefined>>, r.ret.val))))

RECURSIVE _render(_, _, _, _, _, _, _)

\* The end of _render (Component.ts 1165-1193) for the outcome res of
\* _performRender
completeRender(res, c, arg, context, isRequired, isOptional, recursion) ==
    Bind([res.w EXCEPT
             !.comp[c]._renderResult = res.renderResult,
             !.comp[c].phase = RENDERED,
             !.renderState.renderComponentCount =
                 IF ~res.w.renderState.isRenderInterrupted THEN @ + 1 ELSE @], LAMBDA w1 :
        IF res.isPending THEN Return(w1, "throw", RenderPending)
        ELSE IF w1.comp[c].needsRenderAfterRender
        THEN IF recursion < RENDER_RECURSION_LIMIT
             THEN Bind(_enterRender(w1, c, context), LAMBDA w2 :
                      _render(w2, c, arg, context, isRequired, isOptional, recursion + 1))
             ELSE Return(_forceRender(w1, c, FALSE), "ok", res.renderResult)
        ELSE Return(w1, "ok", res.renderResult))

\* _render without the second iteration that renders the error
_renderWithoutRecovery(w, c, arg, context, isRequired, isOptional, recursion) ==
    Bind(_performRender(w, c, arg, w.comp[c].renderError, isRequired, isOptional, FALSE),
         LAMBDA res :
        IF res.thrown # NoError THEN Return(res.w, "throw", res.thrown)
        ELSE IF res.renderError # NoError THEN Return(res.w, "throw", res.renderError)
        ELSE completeRender(res, c, arg, context, isRequired, isOptional, recursion))

\* _render (Component.ts 1120-1194)
_render(w, c, arg, context, isRequired, isOptional, recursion) ==
    Bind(_performRender(w, c, arg, w.comp[c].renderError, isRequired, isOptional, FALSE),
         LAMBDA first :
    Bind(IF ~first.isPending /\ first.renderError # NoError /\ first.thrown = NoError
         THEN _performRender(first.w, c, arg, first.renderError,
                             isRequired, isOptional, TRUE)
         ELSE first, LAMBDA res :
        IF res.thrown # NoError THEN Return(res.w, "throw", res.thrown)
        ELSE IF res.renderError # NoError THEN Return(res.w, "throw", res.renderError)
        ELSE completeRender(res, c, arg, context, isRequired, isOptional, recursion)))

\* render without the test for a pass in progress
renderUnguarded(w, c, arg, context, isRequired, isOptional) ==
    Bind(_enterRender(Log(w, "render", c), c, context), LAMBDA w1 :
        _render(w1, c, arg, context, isRequired, isOptional, 0))

\* render, renderRequired, renderOptional (Component.ts 2038-2068)
render(w, c, arg, context, isRequired, isOptional) ==
    IF ~w.renderState.isRendering
    THEN Return(w, "throw", "RenderOutsidePass")
    ELSE Bind(_enterRender(Log(w, "render", c), c, context), LAMBDA w1 :
             _render(w1, c, arg, context, isRequired, isOptional, 0))

-----------------------------------------------------------------------------
(* Interrupted components, render passes, state changes *)

\* An invalidation that does not go up to the ancestors
invalidateOnlyRecorded(w, c, invalidatePrepare) == _invalidateRenderCache(w, c)

RECURSIVE invalidateUpwards(_, _, _)
\* The while loop of _rerenderInterrupted (Component.ts 337-357)
invalidateUpwards(w, c, invalidatePrepare) ==
    IF c = NoComp THEN w
    ELSE
        Bind(_invalidateRenderCache(
                 IF invalidatePrepare THEN _invalidatePrepareCache(w, c) ELSE w, c),
             LAMBDA w2 :
            LET phase == w2.comp[c].phase
                parent == w2.comp[c]._renderParent
            IN  IF phase # RENDERED /\ phase # RESTORING THEN w2
                ELSE invalidateUpwards(_resetPendingRender(w2, c), parent,
                         /\ parent # NoComp
                         /\ w2.comp[parent].hasChildrenData
                         /\ MapHas(w2.comp[parent].prepareChildren, c)))

RECURSIVE invalidateAll(_, _)
invalidateAll(w, interrupted) ==
    IF interrupted = << >> THEN w
    ELSE Bind(invalidateUpwards(w, Head(interrupted), FALSE), LAMBDA w1 :
             invalidateAll(w1, Tail(interrupted)))

\* _rerenderInterrupted (Component.ts 330-362)
_rerenderInterrupted(w, rootId) ==
    IF MapHas(w.interruptedComponents, rootId)
    THEN [invalidateAll(w, MapGet(w.interruptedComponents, rootId))
             EXCEPT !.interruptedComponents = MapDelete(@, rootId)]
    ELSE w

RECURSIVE rerenderEach(_, _)
\* interruptedComponents.forEach of rerenderAllInterrupted (Component.ts 369-375)
rerenderEach(w, roots) ==
    IF roots = << >> THEN w
    ELSE Bind(_rerenderInterrupted(w, Head(roots).k), LAMBDA w1 :
         Bind(_forceRender(w1, Head(roots).k, FALSE), LAMBDA w2 :
             rerenderEach(w2, Tail(roots))))

\* rerenderAllInterrupted (Component.ts 364-376)
rerenderAllInterrupted(w) ==
    rerenderEach([w EXCEPT !.rerenderInterruptedTimeout = FALSE],
                 w.interruptedComponents)

\* The initial value of renderState (Component.ts 93-129)
IdleRenderState ==
    [isRendering |-> FALSE, isRenderInterrupted |-> FALSE,
     lastRenderWasInterrupted |-> FALSE, lastRenderComponentCount |-> 0,
     renderInterruptGeneration |-> 0, renderComponentCount |-> 0]

\* resetState (Component.ts 180-201): the new globals; the snapshot is the
\* renderState and renderStack of the world before the call
resetState(w) ==
    [w EXCEPT !.renderState.isRendering = FALSE,
              !.renderState.isRenderInterrupted = FALSE,
              !.renderState.lastRenderWasInterrupted = FALSE,
              !.renderState.lastRenderComponentCount = 0,
              !.renderState.renderComponentCount = 0,
              !.renderStack = << >>]

\* A restore that leaves the render stack of the pass that just ended
restoreStateKeepingStack(w, old) == [w EXCEPT !.renderState = old.renderState]

\* restoreState (Component.ts 206-216)
restoreState(w, old) ==
    [w EXCEPT !.renderState = old.renderState, !.renderStack = old.renderStack]

\* renderRoot that does not tell the pass where the previous one was interrupted
renderRootFromStart(w, c, arg, isRequired) ==
    Bind(_rerenderInterrupted(w, c), LAMBDA w1 :
    Bind([resetState(w1) EXCEPT !.renderState.isRendering = TRUE], LAMBDA w2 :
    Bind(render(w2, c, arg, 0, isRequired, FALSE), LAMBDA r :
        restoreState(
            [r EXCEPT !.comp[c].renderRootWasInterrupted = r.renderState.isRenderInterrupted,
                      !.comp[c].componentCount = r.renderState.renderComponentCount],
            w1))))

\* renderRoot that forgets how many components the previous pass rendered
renderRootForgettingCount(w, c, arg, isRequired) ==
    Bind(_rerenderInterrupted(w, c), LAMBDA w1 :
    Bind([resetState(w1) EXCEPT
             !.renderState.isRendering = TRUE,
             !.renderState.lastRenderWasInterrupted = w1.comp[c].renderRootWasInterrupted,
             !.renderState.renderInterruptGeneration = w1.comp[c].interruptGeneration],
         LAMBDA w2 :
    Bind(render(w2, c, arg, 0, isRequired, FALSE), LAMBDA r :
        LET isInterrupted == r.renderState.isRenderInterrupted IN
        restoreState(
            [r EXCEPT !.comp[c].renderRootWasInterrupted = isInterrupted,
                      !.comp[c].interruptGeneration =
                          IF isInterrupted THEN r.renderState.renderInterruptGeneration ELSE 0,
                      !.comp[c].componentCount = r.renderState.renderComponentCount],
            w1))))

\* renderRoot (Component.ts 1989-2015)
renderRoot(w, c, arg, isRequired) ==
    Bind(_rerenderInterrupted(w, c), LAMBDA w1 :
    Bind([resetState(w1) EXCEPT
             !.renderState.isRendering = TRUE,
             !.renderState.lastRenderWasInterrupted = w1.comp[c].renderRootWasInterrupted,
             !.renderState.lastRenderComponentCount = w1.comp[c].componentCount,
             !.renderState.renderInterruptGeneration = w1.comp[c].interruptGeneration],
         LAMBDA w2 :
    Bind(render(w2, c, arg, 0, isRequired, FALSE), LAMBDA r :
        LET isInterrupted == r.renderState.isRenderInterrupted IN
        restoreState(
            [r EXCEPT !.comp[c].renderRootWasInterrupted = isInterrupted,
                      !.comp[c].interruptGeneration =
                          IF isInterrupted THEN r.renderState.renderInterruptGeneration ELSE 0,
                      !.comp[c].componentCount = r.renderState.renderComponentCount],
            w1))))

\* _setState that does not record the changed attribute
_setStateUnrecorded(w, c, name, value) ==
    IF w.state[c][name] # value
    THEN Bind([w EXCEPT !.state[c][name] = value],
              LAMBDA w2 : _forceRender(w2, c, FALSE))
    ELSE w

\* _setState (Component.ts 1056-1118) for values = {name: value}
_setState(w, c, name, value) ==
    IF w.state[c][name] # value
    THEN Bind([w EXCEPT !.state[c][name] = value,
                        !.comp[c]._changedAttributesSincePrepare =
                            IF w.comp[c].phase > MOUNTING THEN @ \cup {name} ELSE @],
              LAMBDA w2 : _forceRender(w2, c, FALSE))
    ELSE w

\* unrenderRoot (Component.ts 1553-1560)
unrenderRoot(w, c) ==
    IF w.comp[c]._renderParent # NoComp THEN w
    ELSE _unmountFromParent(w, c, NoComp)

RECURSIVE disappearEachAnyway(_, _)
\* The loop of the disappear callback without the test of isMounted
disappearEachAnyway(w, cs) ==
    IF cs = << >> THEN w
    ELSE disappearEachAnyway(Log(w, "onDisappear", Head(cs)), Tail(cs))

RECURSIVE disappearEach(_, _)
disappearEach(w, cs) ==
    IF cs = << >> THEN w
    ELSE Bind(IF ~w.comp[Head(cs)].mounted
              THEN Log(w, "onDisappear", Head(cs)) ELSE w, LAMBDA w1 :
             disappearEach(w1, Tail(cs)))

\* The callback scheduled by scheduleDisappearHandlers (Component.ts 386-396)
disappearHandlers(w) ==
    [disappearEach([w EXCEPT !.disappearHandlersTimeout = FALSE], w.unmountedComponents)
        EXCEPT !.unmountedComponents = << >>]

\* renderRootAsync that lets the pending signal of renderRoot through
renderRootAsyncRaising(w, c, arg) == renderRoot(w, c, arg, TRUE)

\* renderRootAsync (Component.ts 2017-2036).  ret tells what became of the
\* returned SyncPromise: "resolved" with the result, "rejected" with the
\* error, or "deferred" while it is unsettled.  The callback installed on a
\* pending pass closes over arg and over the callback it replaces:
\* onRequestRender is the stack of the arguments of the installed callbacks,
\* above the application's own callback.
renderRootAsync(w, c, arg) ==
    Bind(renderRoot(w, c, arg, TRUE), LAMBDA r :
        IF r.ret.kind = "ok" THEN Return(r, "resolved", r.ret.val)
        ELSE IF r.ret.val = RenderPending
        THEN Return([r EXCEPT !.comp[c].onRequestRender = Append(@, arg)],
                    "deferred", << >>)
        ELSE Return(r, "rejected", r.ret.val))

\* The callback scheduled by _requestRender (Component.ts 851-858).  The
\* application's onRequestRender callback is recorded as a hook invocation;
\* a callback installed by renderRootAsync restores the one it replaced and
\* renders again (Component.ts 2027-2031), which settles the deferred value
\* or leaves it unsettled.
needsRenderCallback(w, c) ==
    Bind([w EXCEPT !.comp[c].needsRenderTimeout = FALSE,
                   !.comp[c].scheduledRenderRequests = @ - 1], LAMBDA w1 :
        LET installed == w1.comp[c].onRequestRender IN
        IF installed = << >> THEN Log(w1, "onRequestRender", c)
        ELSE renderRootAsync(
                 SetC(w1, c, "onRequestRender", SubSeq(installed, 1, Len(installed) - 1)),
                 c, installed[Len(installed)]))

\* Fulfilment handler that stores the value without forcing a render
prepareResolvedSilently(w, p, value) ==
    IF w.comp[p.c]._prepare = p.id
    THEN [w EXCEPT !.promises = @ \ {p},
                   !.comp[p.c].prepared = TRUE,
                   !.comp[p.c]._prepareResult = <<"prepared", p.c, value>>,
                   !.comp[p.c]._prepare = 0]
    ELSE [w EXCEPT !.promises = @ \ {p}]

\* The fulfilment handler of a prepare promise (Component.ts 567-582)
prepareResolved(w, p, value) ==
    IF w.comp[p.c]._prepare = p.id
    THEN Bind([w EXCEPT !.promises = @ \ {p},
                        !.comp[p.c].prepared = TRUE,
                        !.comp[p.c]._prepareResult = <<"prepared", p.c, value>>,
                        !.comp[p.c]._prepare = 0],
              LAMBDA w1 : _forceRender(w1, p.c, FALSE))
    ELSE [w EXCEPT !.promises = @ \ {p}]

\* Rejection handler that records the error before forcing the render,
\* which forgets it again
prepareRejectedEarly(w, p, error) ==
    _forceRender(SetC([w EXCEPT !.promises = @ \ {p}], p.c, "renderError", error),
                 p.c, FALSE)

\* The rejection handler of a prepare promise (Component.ts 584-593)
prepareRejected(w, p, error) ==
    Bind(_forceRender([w EXCEPT !.promises = @ \ {p}], p.c, FALSE), LAMBDA w1 :
        IF error # RenderPending
        THEN SetC(w1, p.c, "renderError", error)
        ELSE w1)

-----------------------------------------------------------------------------
(* Initial state and operations *)

\* The hooks of class Component (Component.ts 1905-1983): nothing provided
\* to the context, no waiting for children, a render cache of one entry
\* (getMaxRenderCacheSize), errors rethrown.
DefaultConf ==
    [maxRenderCacheSize |-> 1, shouldWaitForChildren |-> FALSE,
     shouldPrepare |-> "default", shouldRender |-> "default",
     shouldInterruptRender |-> "never", doRenderError |-> "rethrow",
     doRenderPending |-> "render", doPrepare |-> "default",
     initialize |-> "ok", provides |-> {}, prepareProvides |-> {}]

DefaultProg == [render |-> << >>, prepare |-> << >>]

CompSeq == <<"R", "A", "B", "C">>

\* The state after the components of a scenario have been constructed
\* (Component constructor, Component.ts 1500-1543) and before any render.
InitWith(cf, pg) ==
    /\ conf = cf
    /\ prog = pg
    /\ comp = [c \in Comp |->
                  InitialData(CHOOSE i \in 1..Len(CompSeq) : CompSeq[i] = c,
                              cf[c].initialize = "throw")]
    /\ state = [c \in Comp |-> [a \in Attrs |-> "v0"]]
    /\ renderStack = << >>
    /\ renderState = IdleRenderState
    /\ interruptedComponents = EmptyMap
    /\ rerenderInterruptedTimeout = FALSE
    /\ unmountedComponents = << >>
    /\ disappearHandlersTimeout = FALSE
    /\ contexts = <<EmptyAttributes>>
    /\ usedArrays = [i \in 1..Len(CompSeq) |-> {}]
    /\ idCounter = 0
    /\ promises = {}
    /\ log = << >>
    /\ ret = [kind |-> "none", val |-> << >>]
    /\ hist = << >>
    /\ steps = 0
    /\ interruptChecks = << >>
    /\ cacheObj = [kind |-> "none"]
    /\ cacheOp = [op |-> "none"]

\* The operation op takes the world to w.
Apply(w, op) ==
    /\ comp' = w.comp
    /\ state' = w.state
    /\ renderStack' = w.renderStack
    /\ renderState' = w.renderState
    /\ interruptedComponents' = w.interruptedComponents
    /\ rerenderInterruptedTimeout' = w.rerenderInterruptedTimeout
    /\ unmountedComponents' = w.unmountedComponents
    /\ disappearHandlersTimeout' = w.disappearHandlersTimeout
    /\ contexts' = w.contexts
    /\ usedArrays' = w.usedArrays
    /\ idCounter' = w.idCounter
    /\ promises' = w.promises
    /\ log' = w.log
    /\ ret' = w.ret
    /\ interruptChecks' = w.interruptChecks
    /\ hist' = Append(hist, [op |-> op, ret |-> w.ret, log |-> w.log])
    /\ steps' = steps + 1
    /\ UNCHANGED <<conf, prog, cacheObj, cacheOp>>

\* root.renderRoot(arg)
RenderRoot(c, arg) ==
    /\ steps < MaxSteps
    /\ \E w \in {renderRoot(World, c, arg, FALSE)} : Apply(w, <<"renderRoot", c, arg>>)

\* component.setState({name: value}) (Component.ts 1824-1826)
SetState(c, name, value) ==
    /\ steps < MaxSteps
    /\ \E w \in {_setState(World, c, name, value)} :
           Apply(w, <<"setState", c, name, value>>)

\* component.forceRender() (Component.ts 1710-1712)
ForceRender(c) ==
    /\ steps < MaxSteps
    /\ \E w \in {_forceRender(World, c, FALSE)} : Apply(w, <<"forceRender", c>>)

\* component.forcePrepare() (Component.ts 1714-1716)
ForcePrepare(c) ==
    /\ steps < MaxSteps
    /\ \E w \in {_forcePrepare(World, c)} : Apply(w, <<"forcePrepare", c>>)

\* root.unrenderRoot()
UnrenderRoot(c) ==
    /\ steps < MaxSteps
    /\ \E w \in {unrenderRoot(World, c)} : Apply(w, <<"unrenderRoot", c>>)

\* The timer of scheduleDisappearHandlers fires.
DisappearHandlers ==
    /\ steps < MaxSteps
    /\ disappearHandlersTimeout
    /\ \E w \in {disappearHandlers(World)} : Apply(w, <<"disappearHandlers">>)

\* The timer of _requestRender fires for root c.
NeedsRender(c) ==
    /\ steps < MaxSteps
    /\ comp[c].scheduledRenderRequests > 0
    /\ \E w \in {needsRenderCallback(World, c)} : Apply(w, <<"needsRender", c>>)

\* The timer of scheduleRerenderInterrupted fires.
RerenderAllInterrupted ==
    /\ steps < MaxSteps
    /\ rerenderInterruptedTimeout
    /\ \E w \in {rerenderAllInterrupted(World)} :
           Apply(w, <<"rerenderAllInterrupted">>)

\* A pending prepare promise is fulfilled with value v.
PrepareResolved(v) ==
    /\ steps < MaxSteps
    /\ \E p \in promises :
           \E w \in {prepareResolved(World, p, v)} : Apply(w, <<"resolve", p.c, v>>)

\* A pending prepare promise is rejected.
PrepareRejected ==
    /\ steps < MaxSteps
    /\ \E p \in promises :
           \E w \in {prepareRejected(World, p, "AsyncError")} :
               Apply(w, <<"reject", p.c>>)

-----------------------------------------------------------------------------
(* Moving a child between two parents *)

\* Root R renders A and B; the order depends on R's state attribute m (A
\* first while m is "v0", B first once m is "v1").  A renders the child C when
\* the render argument is "x", B renders it when the argument is "y".
MoveProg ==
    [c \in Comp |->
        CASE c = "R" -> [render |-> <<RnIf("B", "m", "v1"), Rn("A", "plain", ""),
                                      RnIf("B", "m", "v0")>>,
                         prepare |-> << >>]
          [] c = "A" -> [render |-> <<Rn("C", "plain", "x")>>, prepare |-> << >>]
          [] c = "B" -> [render |-> <<Rn("C", "plain", "y")>>, prepare |-> << >>]
          [] OTHER -> DefaultProg]

InitMove == InitWith([c \in Comp |-> DefaultConf], MoveProg)

NextMove ==
    \/ \E a \in Args : RenderRoot("R", a)
    \/ \E v \in Vals : SetState("R", "m", v)
    \/ DisappearHandlers
    \/ NeedsRender("R")
    \/ UnrenderRoot("R")

SpecMove == InitMove /\ [][NextMove]_vars

-----------------------------------------------------------------------------
(* A root with a preparing child *)

\* The classes of the root differ between the initial states: the default
\* cache of one entry, no cache (getMaxRenderCacheSize returning 0), a
\* shouldRender that always asks for a render; and in one the child never
\* prepares again (shouldPrepare returning false).
Variants == {"default", "nocache", "shouldrender", "noprepare"}

\* Root R renders its state attribute m and the child A, and renders its
\* errors.  A prepares synchronously from its state attribute k1, renders its
\* attribute m, and throws while its attribute k2 is "v1".
BaseConf(variant) ==
    [c \in Comp |->
        CASE c = "R" -> [DefaultConf EXCEPT
                            !.doRenderError = "render",
                            !.maxRenderCacheSize = IF variant = "nocache" THEN 0 ELSE 1,
                            !.shouldRender =
                                IF variant = "shouldrender" THEN "always" ELSE "default"]
          [] c = "A" -> [DefaultConf EXCEPT
                            !.doPrepare = "sync",
                            !.shouldPrepare =
                                IF variant = "noprepare" THEN "never" ELSE "default"]
          [] OTHER -> DefaultConf]

BaseProg ==
    [c \in Comp |->
        CASE c = "R" -> [render |-> <<St("m"), Rn("A", "plain", "")>>, prepare |-> << >>]
          [] c = "A" -> [render |-> <<St("m"), ThrowIf("k2", "v1")>>,
                         prepare |-> <<St("k1")>>]
          [] OTHER -> DefaultProg]

Init == \E variant \in Variants : InitWith(BaseConf(variant), BaseProg)

Next ==
    \/ \E a \in Args : RenderRoot("R", a)
    \/ \E n \in {"k1", "k2"}, v \in Vals : SetState("A", n, v)
    \/ ForceRender("A")
    \/ ForcePrepare("A")
    \/ UnrenderRoot("R")
    \/ DisappearHandlers
    \/ NeedsRender("R")

Spec == Init /\ [][Next]_vars

-----------------------------------------------------------------------------
(* Context scenarios (src/unnamed/part_007 857-1081): the root R publishes
   its state attributes k1 and k2 in the context and renders A, which
   renders B, which renders the leaf C.
     "chain"    : B reads k2; C reads k1 when its argument is "x" (857-901)
     "middle"   : as "chain", but A prepares on every render and caches
                  two results (902-991)
     "prepchild": A prepares on every render and renders B from doPrepare,
                  returning the prepare result; B has no render cache; C
                  reads k1 (993-1081) *)

CtxVariants == {"chain", "middle", "prepchild"}

CtxConf(variant) ==
    [c \in Comp |->
        CASE c = "R" -> [DefaultConf EXCEPT !.provides = {"k1", "k2"}]
          [] c = "A" /\ variant = "middle" ->
                [DefaultConf EXCEPT !.shouldPrepare = "always",
                                    !.maxRenderCacheSize = 2]
          [] c = "A" /\ variant = "prepchild" ->
                [DefaultConf EXCEPT !.shouldPrepare = "always", !.doPrepare = "sync"]
          [] c = "B" /\ variant = "prepchild" ->
                [DefaultConf EXCEPT !.maxRenderCacheSize = 0]
          [] OTHER -> DefaultConf]

CtxProg(variant) ==
    IF variant = "prepchild"
    THEN [c \in Comp |->
            CASE c = "R" -> [render |-> <<Rn("A", "plain", "")>>, prepare |-> << >>]
              [] c = "A" -> [render |-> << >>, prepare |-> <<Rn("B", "plain", "")>>]
              [] c = "B" -> [render |-> <<Rn("C", "plain", "")>>, prepare |-> << >>]
              [] OTHER -> [render |-> <<Get("k1", "")>>, prepare |-> << >>]]
    ELSE [c \in Comp |->
            CASE c = "R" -> [render |-> <<Rn("A", "plain", "")>>, prepare |-> << >>]
              [] c = "A" -> [render |-> <<Rn("B", "plain", "")>>, prepare |-> << >>]
              [] c = "B" -> [render |-> <<Get("k2", ""), Rn("C", "plain", "")>>,
                             prepare |-> << >>]
              [] OTHER -> [render |-> <<Get("k1", "x")>>, prepare |-> << >>]]

InitCtx == \E variant \in CtxVariants : InitWith(CtxConf(variant), CtxProg(variant))

NextCtx ==
    \/ \E a \in Args : RenderRoot("R", a)
    \/ \E n \in Keys, v \in Vals : SetState("R", n, v)
    \/ ForcePrepare("A")
    \/ ForceRender("B")

SpecCtx == InitCtx /\ [][NextCtx]_vars

-----------------------------------------------------------------------------
(* Asynchronous scenarios (src/unnamed/part_007 57-75, src/docs/Concepts.md
   25-30, 89): the root R renders A with render or renderRequired, A renders
   C with render, renderRequired or renderOptional, A's shouldWaitForChildren
   returns true or false, and doPrepare of C returns a promise. *)

Modes == {"plain", "required", "optional"}

AsyncVariants == [cMode : Modes, aWait : BOOLEAN, aMode : {"plain", "required"}]

AsyncConf(v) ==
    [c \in Comp |->
        CASE c = "A" -> [DefaultConf EXCEPT !.shouldWaitForChildren = v.aWait]
          [] c = "C" -> [DefaultConf EXCEPT !.doPrepare = "async"]
          [] OTHER -> DefaultConf]

AsyncProg(v) ==
    [c \in Comp |->
        CASE c = "R" -> [render |-> <<Rn("A", v.aMode, "")>>, prepare |-> << >>]
          [] c = "A" -> [render |-> <<Rn("C", v.cMode, "")>>, prepare |-> << >>]
          [] OTHER -> DefaultProg]

InitAsync == \E v \in AsyncVariants : InitWith(AsyncConf(v), AsyncProg(v))

NextAsync ==
    \/ \E a \in Args : RenderRoot("R", a)
    \/ \E v \in Vals : PrepareResolved(v)
    \/ PrepareRejected
    \/ NeedsRender("R")

SpecAsync == InitAsync /\ [][NextAsync]_vars

\* The same trees rendered with root.renderRootAsync(arg) as well
RenderRootAsync(c, arg) ==
    /\ steps < MaxSteps
    /\ \E w \in {renderRootAsync(World, c, arg)} : Apply(w, <<"renderRootAsync", c, arg>>)

NextRootAsync ==
    \/ RenderRootAsync("R", "x")
    \/ RenderRoot("R", "x")
    \/ PrepareResolved("v1")
    \/ PrepareRejected
    \/ NeedsRender("R")

SpecRootAsync == InitAsync /\ [][NextRootAsync]_vars

-----------------------------------------------------------------------------
(* Error scenarios (src/unnamed/part_007 245-391, 674-701): the root R
   renders A, whose doRenderError returns a result, and A renders B, which
   returns its state attribute k1.
     "self"      : doRender of A renders B and throws while A's k2 is v0
     "selfprep"  : doPrepare of A throws while A's k2 is v0
     "throwfirst": doRender of A throws when A's k2 is v1, before rendering B
     "child"     : doRender of A throws if B returned v0
     "prepchild" : doPrepare of A renders B and throws if B returned v0 *)

ErrVariants == {"self", "selfprep", "throwfirst", "child", "prepchild"}

ErrConf(variant) ==
    [c \in Comp |->
        IF c = "A"
        THEN [DefaultConf EXCEPT
                 !.doRenderError = "render",
                 !.doPrepare = IF variant \in {"selfprep", "prepchild"}
                               THEN "sync" ELSE "default"]
        ELSE DefaultConf]

ErrProg(variant) ==
    [c \in Comp |->
        CASE c = "R" -> [render |-> <<Rn("A", "plain", "")>>, prepare |-> << >>]
          [] c = "B" -> [render |-> <<St("k1")>>, prepare |-> << >>]
          [] c = "A" ->
                CASE variant = "self" ->
                        [render |-> <<Rn("B", "plain", ""), ThrowIf("k2", "v0")>>,
                         prepare |-> << >>]
                  [] variant = "selfprep" ->
                        [render |-> <<Rn("B", "plain", "")>>,
                         prepare |-> <<ThrowIf("k2", "v0")>>]
                  [] variant = "throwfirst" ->
                        [render |-> <<ThrowIf("k2", "v1"), Rn("B", "plain", "")>>,
                         prepare |-> << >>]
                  [] variant = "child" ->
                        [render |-> <<Rn("B", "plain", ""), ThrowIfGot("v0")>>,
                         prepare |-> << >>]
                  [] OTHER ->
                        [render |-> << >>,
                         prepare |-> <<Rn("B", "plain", ""), ThrowIfGot("v0")>>]
          [] OTHER -> DefaultProg]

InitErr == \E variant \in ErrVariants : InitWith(ErrConf(variant), ErrProg(variant))

NextErr ==
    \/ \E a \in Args : RenderRoot("R", a)
    \/ \E v \in Vals : SetState("A", "k2", v)
    \/ \E v \in Vals : SetState("B", "k1", v)
    \/ ForceRender("B")

SpecErr == InitErr /\ [][NextErr]_vars

-----------------------------------------------------------------------------
(* Failure scenarios (src/unnamed/part_007 674-736, Component.ts 1533-1541):
   the root R, whose doRenderError returns a result, renders A.  A fails
   in one of three ways,
     "sync" : doRender of A throws while A's k2 is v0
     "async": doPrepare of A returns a promise, which may be rejected
     "init" : initialize of A threw
   and its doRenderError either returns a result ("render") or throws the
   error it was given, as the default hook does ("rethrow"). *)

FailVariants == [kind : {"sync", "async", "init"}, onError : {"render", "rethrow"}]

FailConf(v) ==
    [c \in Comp |->
        CASE c = "R" -> [DefaultConf EXCEPT !.doRenderError = "render"]
          [] c = "A" ->
                [DefaultConf EXCEPT
                    !.doRenderError = v.onError,
                    !.doPrepare = IF v.kind = "async" THEN "async" ELSE "default",
                    !.initialize = IF v.kind = "init" THEN "throw" ELSE "ok"]
          [] OTHER -> DefaultConf]

FailProg(v) ==
    [c \in Comp |->
        CASE c = "R" -> [render |-> <<Rn("A", "plain", "")>>, prepare |-> << >>]
          [] c = "A" /\ v.kind = "sync" ->
                [render |-> <<ThrowIf("k2", "v0")>>, prepare |-> << >>]
          [] OTHER -> DefaultProg]

InitFail == \E v \in FailVariants : InitWith(FailConf(v), FailProg(v))

\* An operation of a failure scenario takes the world to w.
FailStep(w, op) == steps < MaxFailSteps /\ Apply(w, op)

NextFail ==
    \/ \E w \in {renderRoot(World, "R", "x", FALSE)} :
           FailStep(w, <<"renderRoot", "R", "x">>)
    \/ \E w \in {_setState(World, "A", "k2", "v1")} :
           FailStep(w, <<"setState", "A", "k2", "v1">>)
    \/ \E p \in promises : \E w \in {prepareResolved(World, p, "v1")} :
           FailStep(w, <<"resolve", p.c, "v1">>)
    \/ \E p \in promises : \E w \in {prepareRejected(World, p, "AsyncError")} :
           FailStep(w, <<"reject", p.c>>)
    \/ /\ comp["R"].scheduledRenderRequests > 0
       /\ \E w \in {needsRenderCallback(World, "R")} :
              FailStep(w, <<"needsRender", "R">>)

SpecFail == InitFail /\ [][NextFail]_vars

-----------------------------------------------------------------------------
(* Trees whose shape changes between passes (src/unnamed/part_007 107-190,
   616-673).  Root R renders A and B, A first while R's state attribute m is
   "v0" and B first once it is "v1".  In the initial states
     "move"   : A renders the child C when the render argument is "x", B
                renders it when the argument is "y"
     "both"   : A always renders C, and B renders C as well when the
                argument is "y"
     "nested" : R renders A only when the argument is "x"; A renders C
     "prepare": as "nested", but A renders C from its doPrepare
   and every component keeps one render result (the default) or two
   (getMaxRenderCacheSize, src/unnamed/part_007 620-623). *)

TreeVariants ==
    [shape : {"move", "both", "nested", "prepare"}, maxRenderCacheSize : {1, 2}]

TreeConf(variant) ==
    [c \in Comp |->
        [DefaultConf EXCEPT
            !.maxRenderCacheSize = variant.maxRenderCacheSize,
            !.doPrepare = IF c = "A" /\ variant.shape = "prepare"
                          THEN "sync" ELSE "default"]]

TreeProg(variant) ==
    [c \in Comp |->
        CASE c = "R" ->
                [render |-> <<RnIf("B", "m", "v1"),
                              Rn("A", "plain",
                                 IF variant.shape \in {"nested", "prepare"}
                                 THEN "x" ELSE ""),
                              RnIf("B", "m", "v0")>>,
                 prepare |-> << >>]
          [] c = "A" ->
                IF variant.shape = "prepare"
                THEN [render |-> << >>, prepare |-> <<Rn("C", "plain", "")>>]
                ELSE [render |-> <<Rn("C", "plain",
                                      IF variant.shape = "move" THEN "x" ELSE "")>>,
                      prepare |-> << >>]
          [] c = "B" /\ variant.shape \in {"move", "both"} ->
                [render |-> <<Rn("C", "plain", "y")>>, prepare |-> << >>]
          [] OTHER -> DefaultProg]

InitTree == \E variant \in TreeVariants : InitWith(TreeConf(variant), TreeProg(variant))

\* component.render(arg) called by the application while no pass is running
RenderOutside(c, arg) ==
    /\ steps < MaxSteps
    /\ \E w \in {render(World, c, arg, 0, FALSE, FALSE)} : Apply(w, <<"render", c, arg>>)

NextTree ==
    \/ \E a \in Args : RenderRoot("R", a)
    \/ \E v \in Vals : SetState("R", "m", v)
    \/ \E c \in {"R", "C"} : RenderOutside(c, "x")
    \/ ForceRender("A")
    \/ DisappearHandlers
    \/ UnrenderRoot("R")

SpecTree == InitTree /\ [][NextTree]_vars

-----------------------------------------------------------------------------
(* Interrupted passes (src/unnamed/part_007 1121-1153) and a root rendered
   inside the pass of another root (src/unnamed/part_007 1594-1629).  The
   tree of each initial state is fixed:
     "all"    : R renders A and B, which both ask for an interrupt
     "first"  : R renders A, which asks for an interrupt, and then B, which
                does not and renders C
     "deep"   : R renders A, A renders B, and R then renders C; B and C ask
                for an interrupt
     "prepare": R renders A, whose doPrepare renders B; B asks for an
                interrupt
     "nested" : R calls B.renderRoot and then renders A; B renders C, which
                asks for an interrupt
     "throwing": R, whose doRenderError returns a result, renders A; A
                renders B, which asks for an interrupt, and then throws
     "nestedthrow": as "nested", but C throws instead of asking for an
                interrupt, and the doRenderError of R returns a result *)

InterruptVariants ==
    {"all", "first", "deep", "prepare", "nested", "throwing", "nestedthrow"}

InterruptConf(variant) ==
    LET asking == CASE variant = "all" -> {"A", "B"}
                    [] variant = "first" -> {"A"}
                    [] variant = "deep" -> {"B", "C"}
                    [] variant \in {"prepare", "throwing"} -> {"B"}
                    [] variant = "nestedthrow" -> {}
                    [] OTHER -> {"C"}
    IN  [c \in Comp |->
            [DefaultConf EXCEPT
                !.shouldInterruptRender = IF c \in asking THEN "always" ELSE "never",
                !.doRenderError = IF variant \in {"throwing", "nestedthrow"} /\ c = "R"
                                  THEN "render" ELSE "rethrow",
                !.doPrepare = IF variant = "prepare" /\ c = "A"
                              THEN "sync" ELSE "default"]]

InterruptProg(variant) ==
    [c \in Comp |->
        CASE c = "R" /\ variant \in {"all", "first"} ->
                [render |-> <<Rn("A", "plain", ""), Rn("B", "plain", "")>>,
                 prepare |-> << >>]
          [] c = "R" /\ variant = "deep" ->
                [render |-> <<Rn("A", "plain", ""), Rn("C", "plain", "")>>,
                 prepare |-> << >>]
          [] c = "R" /\ variant \in {"prepare", "throwing"} ->
                [render |-> <<Rn("A", "plain", "")>>, prepare |-> << >>]
          [] c = "R" /\ variant \in {"nested", "nestedthrow"} ->
                [render |-> <<Stmt("renderRoot", "B", "plain", "same", "", "", ""),
                              Rn("A", "plain", "")>>,
                 prepare |-> << >>]
          [] c = "A" /\ variant = "deep" ->
                [render |-> <<Rn("B", "plain", "")>>, prepare |-> << >>]
          [] c = "A" /\ variant = "throwing" ->
                [render |-> <<Rn("B", "plain", ""), ThrowIf("", "")>>, prepare |-> << >>]
          [] c = "A" /\ variant = "prepare" ->
                [render |-> << >>, prepare |-> <<Rn("B", "plain", "")>>]
          [] c = "C" /\ variant = "nestedthrow" ->
                [render |-> <<ThrowIf("", "")>>, prepare |-> << >>]
          [] c = "B" /\ variant \in {"first", "nested", "nestedthrow"} ->
                [render |-> <<Rn("C", "plain", "")>>, prepare |-> << >>]
          [] OTHER -> DefaultProg]

InitInterrupt ==
    \E variant \in InterruptVariants :
        InitWith(InterruptConf(variant), InterruptProg(variant))

\* root.renderRoot(arg) of the interruption scenarios
InterruptPass(arg) ==
    \E w \in {renderRoot(World, "R", arg, FALSE)} :
        FailStep(w, <<"renderRoot", "R", arg>>)

NextInterrupt ==
    \/ \E a \in Args : InterruptPass(a)
    \/ /\ rerenderInterruptedTimeout
       /\ \E w \in {rerenderAllInterrupted(World)} :
              FailStep(w, <<"rerenderAllInterrupted">>)
    \/ \E c \in {"R", "B"} :
           /\ comp[c].scheduledRenderRequests > 0
           /\ \E w \in {needsRenderCallback(World, c)} :
                  FailStep(w, <<"needsRender", c>>)

SpecInterrupt == InitInterrupt /\ [][NextInterrupt]_vars

\* The root keeps being rendered (Component.render(c) repeated,
\* src/unnamed/part_007 1150-1152).
SpecInterruptLive == SpecInterrupt /\ WF_vars(\E a \in Args : InterruptPass(a))

-----------------------------------------------------------------------------
(* Components whose hooks misbehave: the scenario of the base tree, R
   rendering A, with a child whose initialize throws
   (src/unnamed/part_007 226-243), or whose doPrepare calls
   this.forcePrepare() every time it runs; the root alone, with a
   doRender that calls this.forceRender() every time it runs; and a root
   that renders A, whose doRenderPending throws, inside try ... catch and
   then renders B. *)

HookVariants == {"init", "initroot", "initinterrupt", "rerender", "reprepare", "throwpending"}

HookConf(variant) ==
    [c \in Comp |->
        CASE c = "R" -> [DefaultConf EXCEPT
                            !.doRenderError = "render",
                            !.initialize = IF variant = "initroot" THEN "throw" ELSE "ok"]
          [] c = "A" -> [DefaultConf EXCEPT
                            !.doPrepare = IF variant = "throwpending" THEN "async" ELSE "sync",
                            !.doRenderPending =
                                IF variant = "throwpending" THEN "throw" ELSE "render",
                            !.doRenderError = "render",
                            !.shouldInterruptRender =
                                IF variant = "initinterrupt" THEN "always" ELSE "never",
                            !.initialize = IF variant \in {"init", "initinterrupt"}
                                           THEN "throw" ELSE "ok"]
          [] OTHER -> DefaultConf]

HookProg(variant) ==
    [c \in Comp |->
        CASE c = "R" /\ variant = "rerender" ->
                [render |-> <<St("m"), Stmt("forceRender", "R", "plain", "", "", "", "")>>,
                 prepare |-> << >>]
          [] c = "R" /\ variant = "throwpending" ->
                [render |-> <<Stmt("tryRender", "A", "plain", "", "", "", ""),
                              Rn("B", "plain", "")>>,
                 prepare |-> << >>]
          [] c = "A" /\ variant = "reprepare" ->
                [render |-> <<St("m")>>,
                 prepare |-> <<St("k1"), Stmt("forcePrepare", "A", "plain", "", "", "", "")>>]
          [] OTHER -> BaseProg[c]]

SpecHooks ==
    /\ \E variant \in HookVariants : InitWith(HookConf(variant), HookProg(variant))
    /\ [][Next]_vars

-----------------------------------------------------------------------------
(* Prepare promises that settle after their prepare was given up: the
   failure scenarios (A prepares asynchronously in two of them) with
   forcePrepare and unrenderRoot between the pass and the settlement. *)

NextSupersede ==
    \/ \E a \in Args : RenderRoot("R", a)
    \/ ForcePrepare("A")
    \/ UnrenderRoot("R")
    \/ \E v \in Vals : PrepareResolved(v)
    \/ PrepareRejected

SpecSupersede == InitFail /\ [][NextSupersede]_vars

-----------------------------------------------------------------------------
(* The caches used on their own *)

\* The keys given to a cache.
CacheKeys == {"x", "y", "z"}

\* cacheOp.used lists the keys set or found so far, the latest first.
Touch(used, key) == <<key>> \o SelectSeq(used, LAMBDA k : k # key)

\* new Cache({maxSize}) (part_004 12-19), new HashCache({maxSize, keyHash})
\* (part_005 9-17)
NewCache(kind, maxSize, keyHash) ==
    /\ cacheObj.kind = "none"
    /\ cacheObj' = IF kind = "scan"
                THEN [kind |-> "scan", maxSize |-> maxSize, entries |-> << >>]
                ELSE [kind |-> "hash", maxSize |-> maxSize, keyHash |-> keyHash,
                      entries |-> << >>, keysOrder |-> << >>]
    /\ cacheOp' = [op |-> "new", used |-> << >>]
    /\ UNCHANGED <<comp, state, renderStack, renderState, interruptedComponents,
                   rerenderInterruptedTimeout, unmountedComponents,
                   disappearHandlersTimeout, contexts, usedArrays, idCounter,
                   promises, conf, prog, log, ret, hist, steps, interruptChecks>>

\* cache.setEntry(key, value)
SetEntry(key, value) ==
    /\ cacheObj.kind # "none"
    /\ cacheObj.kind = "hash" => Len(cacheObj.keysOrder) < MaxKeysOrder
    /\ cacheObj' = IF cacheObj.kind = "scan"
                THEN [cacheObj EXCEPT !.entries = CacheSetEntry(@, cacheObj.maxSize, key, value)]
                ELSE HashCacheSetEntry(cacheObj, key, value)
    /\ cacheOp' = [op |-> "setEntry", key |-> key, value |-> value,
                   used |-> Touch(cacheOp.used, key)]
    /\ UNCHANGED <<comp, state, renderStack, renderState, interruptedComponents,
                   rerenderInterruptedTimeout, unmountedComponents,
                   disappearHandlersTimeout, contexts, usedArrays, idCounter,
                   promises, conf, prog, log, ret, hist, steps, interruptChecks>>

\* cache.getEntry(key)
GetEntry(key) ==
    /\ cacheObj.kind # "none"
    /\ \E result \in {IF cacheObj.kind = "scan"
                        THEN CacheGetEntry(cacheObj.entries, key)
                        ELSE HashCacheGetEntry(cacheObj, key)} :
           cacheOp' = [op |-> "getEntry", key |-> key, result |-> result,
                       used |-> IF result = MISSING THEN cacheOp.used
                                ELSE Touch(cacheOp.used, key)]
    /\ UNCHANGED <<cacheObj, comp, state, renderStack, renderState, interruptedComponents,
                   rerenderInterruptedTimeout, unmountedComponents,
                   disappearHandlersTimeout, contexts, usedArrays, idCounter,
                   promises, conf, prog, log, ret, hist, steps, interruptChecks>>

\* cache.empty()
Empty ==
    /\ cacheObj.kind # "none"
    /\ cacheObj' = IF cacheObj.kind = "scan"
                THEN [cacheObj EXCEPT !.entries = << >>]
                ELSE [cacheObj EXCEPT !.entries = << >>, !.keysOrder = << >>]
    /\ cacheOp' = [op |-> "empty", used |-> << >>]
    /\ UNCHANGED <<comp, state, renderStack, renderState, interruptedComponents,
                   rerenderInterruptedTimeout, unmountedComponents,
                   disappearHandlersTimeout, contexts, usedArrays, idCounter,
                   promises, conf, prog, log, ret, hist, steps, interruptChecks>>

\* The hash functions: JSON.stringify (the default of HashCache), a
\* getRenderArgHash that yields the empty string for one argument, and the
\* default getRenderArgHash, which yields it for every argument
\* (Component.ts 1929-1931).
NextCache ==
    \/ \E kind \in {"scan", "hash"}, maxSize \in 0..MaxCacheSize,
          keyHash \in {[k \in CacheKeys |-> "json:" \o k],
                       [k \in CacheKeys |-> IF k = "x" THEN "" ELSE k],
                       [k \in CacheKeys |-> ""]} :
           NewCache(kind, maxSize, keyHash)
    \/ \E key \in CacheKeys, v \in Vals : SetEntry(key, [result |-> v])
    \/ \E key \in CacheKeys : GetEntry(key)
    \/ Empty

SpecCache == InitWith([c \in Comp |-> DefaultConf], BaseProg) /\ [][NextCache]_vars

-----------------------------------------------------------------------------
(* Properties *)

\* Number of invocations of hook h of component c in the log l
Count(l, h, c) == Cardinality({i \in 1..Len(l) : l[i] = <<h, c>>})

\* Component c, mounted under a parent, is mounted under another parent
\* after the step.
Moved(c) ==
    /\ comp[c].mounted
    /\ comp[c]._renderParent # NoComp
    /\ comp'[c].mounted
    /\ comp'[c]._renderParent # NoComp
    /\ comp'[c]._renderParent # comp[c]._renderParent

\* C1: a root pass that moves a mounted child from one parent to another
\* invokes exactly one onUnmount and then exactly one onMount for the child,
\* and no onDisappear.
C1_MoveUnmountsThenMounts ==
    [][\A c \in Comp :
          Moved(c) =>
              /\ Count(log', "onUnmount", c) = 1
              /\ Count(log', "onMount", c) = 1
              /\ \A i, j \in 1..Len(log') :
                     log'[i] = <<"onUnmount", c>> /\ log'[j] = <<"onMount", c>> => i < j
              /\ Count(log', "onDisappear", c) = 0]_vars

\* Operations i and i + 1 are both renderRoot(arg) of the root c, whose class
\* has a render cache of at least one entry and the default shouldRender.
RenderedTwice(i, c, arg) ==
    /\ hist[i].op = <<"renderRoot", c, arg>>
    /\ hist[i + 1].op = <<"renderRoot", c, arg>>
    /\ conf[c].maxRenderCacheSize >= 1
    /\ conf[c].shouldRender = "default"

\* The second of the two calls returns what the first returned, does not
\* invoke doRender and invokes onCachedRender once.
SecondIsCached(i, c) ==
    /\ hist[i + 1].ret = hist[i].ret
    /\ Count(hist[i + 1].log, "doRender", c) = 0
    /\ Count(hist[i + 1].log, "onCachedRender", c) = 1

\* The call returned normally and rendered c neither through doRenderError
\* nor through doRenderPending.
RenderedNormally(h, c) ==
    /\ h.ret.kind = "ok"
    /\ Count(h.log, "doRenderError", c) = 0
    /\ Count(h.log, "doRenderPending", c) = 0

Stale(c) ==
    ~comp[c].prepared \/ shouldPrepare(c, comp[c]._changedAttributesSincePrepare)

\* The operation performed by the step
LastOp == hist'[Len(hist')].op

RECURSIVE ReadsOf(_, _)
\* The context keys the hook bodies of c and of the components they render
\* read, following the render statements n levels down.
ReadsOf(c, n) ==
    LET stmts == prog[c].render \o prog[c].prepare
        own == {stmts[i].key : i \in {j \in 1..Len(stmts) : stmts[j].op = "get"}}
        kids == {stmts[i].child : i \in {j \in 1..Len(stmts) : stmts[j].op = "render"}}
    IN  IF n = 0 THEN own
        ELSE own \cup UNION {ReadsOf(k, n - 1) : k \in kids}

\* Operations i, i + 1, i + 2 are: a pass of root r that returned, a
\* setState of attribute k of r, and a pass of r with the same argument.
ChangedBetweenPasses(i, r, k) ==
    /\ hist[i].op[1] = "renderRoot" /\ hist[i].op[2] = r
    /\ hist[i].ret.kind = "ok"
    /\ hist[i + 1].op[1] = "setState" /\ hist[i + 1].op[2] = r
    /\ hist[i + 1].op[3] = k
    /\ hist[i + 2].op = hist[i].op

\* C3: when the root changes only context key k between two passes with
\* the same argument, a component below it that has the default
\* shouldPrepare and shouldRender and a render cache, and in whose subtree
\* no hook reads k, has neither doRender nor doPrepare invoked by the second
\* pass.
C3_UnusedKeyDoesNotRerender ==
    \A i \in 1..(Len(hist) - 2) : \A k \in Keys : \A c \in Comp \ {"R"} :
        (/\ ChangedBetweenPasses(i, "R", k)
         /\ k \notin ReadsOf(c, Cardinality(Comp))
         /\ conf[c].shouldPrepare = "default"
         /\ conf[c].shouldRender = "default"
         /\ conf[c].maxRenderCacheSize >= 1
         /\ Count(hist[i].log, "doRender", c) + Count(hist[i].log, "onCachedRender", c) > 0)
            => /\ Count(hist[i + 2].log, "doRender", c) = 0
               /\ Count(hist[i + 2].log, "doPrepare", c) = 0

\* The root changed k2, B (which reads k2) was rendered again by the next
\* pass and C (which does not) was taken from its cache.
C3_Witness ==
    \E i \in 1..(Len(hist) - 2) :
        /\ ChangedBetweenPasses(i, "R", "k2")
        /\ "k2" \notin ReadsOf("C", Cardinality(Comp))
        /\ Count(hist[i + 2].log, "doRender", "B") = 1
        /\ Count(hist[i + 2].log, "onCachedRender", "C") = 1

\* The components as constructed, with the present state attributes.
FreshWorld ==
    [World EXCEPT
        !.comp = [c \in Comp |->
                     InitialData(CHOOSE i \in 1..Len(CompSeq) : CompSeq[i] = c,
                                 conf[c].initialize = "throw")],
        !.renderStack = << >>, !.renderState = IdleRenderState,
        !.interruptedComponents = EmptyMap, !.rerenderInterruptedTimeout = FALSE,
        !.unmountedComponents = << >>, !.disappearHandlersTimeout = FALSE,
        !.contexts = <<EmptyAttributes>>,
        !.usedArrays = [i \in 1..Len(CompSeq) |-> {}],
        !.idCounter = 0, !.promises = {}]

\* The latest operation
Latest == hist[Len(hist)]

ModeOf(parent, child) ==
    LET ss == prog[parent].render
    IN  ss[CHOOSE i \in 1..Len(ss) : ss[i].op = "render" /\ ss[i].child = child].mode

\* The prepare promise of c has not been settled.
Unresolved(c) == comp[c]._prepare # 0 /\ promiseIsPending(World, comp[c]._prepare)

\* The latest operation was a root pass in which c was rendered while its
\* prepare promise was unsettled.
PendingPass(c) ==
    /\ hist # << >> /\ Latest.op[1] = "renderRoot"
    /\ Count(log, "render", c) >= 1
    /\ Unresolved(c)

\* What doRender of c returns for argument arg, prepare result prep and the
\* values vals its body computed
RenderResult(c, arg, prep, vals) == <<"(", c, arg>> \o prep \o vals \o <<")">>

\* In the latest pass the pending C made A pending: C did not render through
\* doRenderPending and A did not commit a doRender result.
APending ==
    /\ Count(log, "doRenderPending", "C") = 0
    /\ comp["A"]._renderResult \in
           {doRenderPendingResult("A", Latest.op[3]), <<Undefined>>}

\* In the latest pass the pending C rendered through its own doRenderPending
\* and A's doRender returned with that placeholder.
ANotPending ==
    /\ Count(log, "doRenderPending", "C") = 1
    /\ Count(log, "doRenderPending", "A") = 0
    /\ comp["A"]._renderResult =
           RenderResult("A", Latest.op[3], <<Undefined>>,
                        doRenderPendingResult("C", Latest.op[3]))

\* C6: while the promise returned by doPrepare of C is unsettled, a pass
\* that renders C does not invoke doRender of C and renders through
\* doRenderPending (of C itself, or of the ancestor at which the pendingness
\* stops when C is required or waited for); fulfilling the promise with v
\* requests a render of the root, and the next pass invokes doRender of C
\* with prepare result v, without doPrepare, and returns the doRender results.
C6_AsyncPrepareProtocol ==
    /\ PendingPass("C") =>
          /\ Count(log, "doRender", "C") = 0
          /\ Count(log, "doRenderPending", "C") + Count(log, "doRenderPending", "A")
                + Count(log, "doRenderPending", "R") = 1
          /\ ~mustWait("A", ModeOf("A", "C") = "required", ModeOf("A", "C") = "optional")
                => /\ Count(log, "doRenderPending", "C") = 1
                   /\ comp["C"]._renderResult = doRenderPendingResult("C", Latest.op[3])
    /\ (hist # << >> /\ Latest.op[1] = "resolve")
          => comp["R"].needsRenderTimeout /\ ~Unresolved(Latest.op[2])
    /\ \A v \in Vals :
          (/\ Len(hist) >= 2
           /\ hist[Len(hist) - 1].op = <<"resolve", "C", v>>
           /\ Latest.op[1] = "renderRoot")
              => /\ Count(log, "doRender", "C") = 1
                 /\ Count(log, "doPrepare", "C") = 0
                 /\ Count(log, "doRenderPending", "C") = 0
                 /\ ret = [kind |-> "ok", val |->
                       RenderResult("R", Latest.op[3], <<Undefined>>,
                         RenderResult("A", Latest.op[3], <<Undefined>>,
                           RenderResult("C", Latest.op[3], <<"prepared", "C", v>>,
                                        << >>)))]

\* A pass that rendered C through doRenderPending, the fulfilment of its
\* promise, and a pass that invoked doRender of C.
C6_Witness ==
    \E i \in 1..(Len(hist) - 2) :
        /\ hist[i].op[1] = "renderRoot"
        /\ Count(hist[i].log, "doPrepare", "C") = 1
        /\ Count(hist[i].log, "doRenderPending", "C") = 1
        /\ hist[i + 1].op[1] = "resolve"
        /\ hist[i + 2].op[1] = "renderRoot"
        /\ Count(hist[i + 2].log, "doRender", "C") = 1

\* C7: when A's shouldWaitForChildren returns true and C, rendered with
\* plain render in A's doRender, is pending, doRender of A was entered but
\* A's render yields A's doRenderPending result to the root, or, when the
\* root rendered A with renderRequired, makes the root pending so that the
\* pass returns the root's doRenderPending result.
C7_WaitingParentDiscardsRender ==
    (/\ PendingPass("C")
     /\ conf["A"].shouldWaitForChildren
     /\ ModeOf("A", "C") = "plain")
        => /\ Count(log, "doRender", "A") = 1
           /\ IF ModeOf("R", "A") = "required"
              THEN /\ Count(log, "doRenderPending", "A") = 0
                   /\ Count(log, "doRenderPending", "R") = 1
                   /\ ret = [kind |-> "ok",
                             val |-> doRenderPendingResult("R", Latest.op[3])]
              ELSE /\ Count(log, "doRenderPending", "A") = 1
                   /\ Count(log, "doRenderPending", "R") = 0
                   /\ ret = [kind |-> "ok", val |->
                         RenderResult("R", Latest.op[3], <<Undefined>>,
                                      doRenderPendingResult("A", Latest.op[3]))]

\* A waiting A entered doRender, found C pending and rendered through
\* doRenderPending.
C7_Witness ==
    /\ PendingPass("C")
    /\ conf["A"].shouldWaitForChildren
    /\ ModeOf("A", "C") = "plain"
    /\ Count(log, "doRender", "A") = 1
    /\ Count(log, "doRenderPending", "A") = 1

\* C8: a pending C rendered with renderRequired makes A pending whatever
\* A's shouldWaitForChildren returns; rendered with renderOptional it never
\* does and A receives C's doRenderPending result; rendered with plain
\* render it makes A pending exactly when A's shouldWaitForChildren
\* returns true.
C8_RequiredOptionalModifiers ==
    PendingPass("C") =>
        CASE ModeOf("A", "C") = "required" -> APending
          [] ModeOf("A", "C") = "optional" -> ANotPending
          [] OTHER -> IF conf["A"].shouldWaitForChildren THEN APending ELSE ANotPending

\* A pending C rendered with renderOptional by a waiting A.
C8_Witness ==
    /\ PendingPass("C")
    /\ ModeOf("A", "C") = "optional"
    /\ conf["A"].shouldWaitForChildren
    /\ Count(log, "doRenderPending", "C") = 1

\* Component b returns val: a statement of its render hook reads a state
\* attribute whose value is val.
Yields(b, val) ==
    \E k \in 1..Len(prog[b].render) :
        prog[b].render[k].op = "state" /\ state[b][prog[b].render[k].key] = val

\* The hook body ss of c throws in the present state.
BodyThrows(c, ss) ==
    \E i \in 1..Len(ss) :
        \/ ss[i].op = "throwIf" /\ state[c][ss[i].key] = ss[i].val
        \/ /\ ss[i].op = "throwIfGot"
           /\ \E j \in 1..(i - 1) : ss[j].op = "render" /\ Yields(ss[j].child, ss[i].val)

\* doPrepare or doRender of c throws in the present state.
Throws(c) ==
    \/ conf[c].doPrepare # "default" /\ BodyThrows(c, prog[c].prepare)
    \/ BodyThrows(c, prog[c].render)

\* C9: when doRender or the synchronous doPrepare of A throws, the pass
\* that renders A invokes doRenderError of A once and the root receives, and
\* returns inside its own result, what doRenderError returned for the
\* original argument and the thrown error; when, after a state change of A,
\* they no longer throw, the next pass invokes doRender of A and returns the
\* result of a normal render.
C9_RenderErrorRecovered ==
    /\ (hist # << >> /\ Latest.op[1] = "renderRoot" /\ Throws("A"))
          => /\ ret = [kind |-> "ok", val |->
                   RenderResult("R", Latest.op[3], <<Undefined>>,
                       doRenderErrorResult("A", Latest.op[3], ErrorOf("A")))]
             /\ Count(log, "render", "A") > 0 => Count(log, "doRenderError", "A") = 1
    /\ (hist # << >> /\ Latest.op[1] = "renderRoot" /\ ~Throws("A"))
          => /\ ret = renderRoot(FreshWorld, "R", Latest.op[3], FALSE).ret
             /\ ret.kind = "ok"
             /\ Count(log, "doRenderError", "A") = 0
    /\ (/\ Len(hist) >= 3
        /\ Count(hist[Len(hist) - 2].log, "doRenderError", "A") = 1
        /\ hist[Len(hist) - 1].op[1] = "setState" /\ hist[Len(hist) - 1].op[2] = "A"
        /\ Latest.op[1] = "renderRoot"
        /\ ~Throws("A"))
          => Count(log, "doRender", "A") = 1

\* An error render of A, a state change of A, and a pass in which A
\* renders normally.
C9_Witness ==
    /\ Len(hist) >= 3
    /\ Count(hist[Len(hist) - 2].log, "doRenderError", "A") = 1
    /\ hist[Len(hist) - 1].op[1] = "setState" /\ hist[Len(hist) - 1].op[2] = "A"
    /\ Latest.op[1] = "renderRoot"
    /\ ~Throws("A")
    /\ Count(log, "doRender", "A") = 1
    /\ ret.kind = "ok"

\* The last render of c went through doRenderError.
InErrorRender(c) == Head(comp[c]._renderResult) = "error"

\* C10: a child that A rendered in the attempt that failed is a mounted
\* child of A after the error render; a state change or forceRender of that
\* child then empties the render caches of A and of the root (and makes A
\* unprepared when it is a prepare child); and a root pass that starts with
\* these caches empty invokes doRender of A, or doPrepare when A has to
\* prepare first.
C10_ChildrenKeptAcrossErrorRender ==
    [][/\ (/\ LastOp[1] = "renderRoot"
           /\ Count(log', "doRenderError", "A") = 1
           /\ Count(log', "render", "B") > 0)
             => /\ comp'["B"].mounted
                /\ comp'["B"]._renderParent = "A"
                /\ MapHas(comp'["A"].renderedChildren, "B")
       /\ (/\ InErrorRender("A")
           /\ comp["B"].mounted /\ comp["B"]._renderParent = "A"
           /\ \/ LastOp[1] = "forceRender" /\ LastOp[2] = "B"
              \/ LastOp[1] = "setState" /\ LastOp[2] = "B" /\ state'["B"] # state["B"])
             => /\ comp'["A"]._renderCache = << >>
                /\ comp'["R"]._renderCache = << >>
                /\ MapHas(comp["A"].prepareChildren, "B") => ~comp'["A"].prepared
       /\ (/\ LastOp[1] = "renderRoot"
           /\ comp["A"]._renderCache = << >>
           /\ comp["R"]._renderCache = << >>)
             => IF Stale("A")
                THEN Count(log', "doPrepare", "A") = 1
                ELSE Count(log', "doRender", "A") = 1]_vars

\* After an error render of A, its child B changed state or was forced to
\* render, and the next pass rendered A without error.
C10_Witness ==
    \E i \in 1..(Len(hist) - 2) :
        /\ hist[i].op[1] = "renderRoot"
        /\ Count(hist[i].log, "doRenderError", "A") = 1
        /\ Count(hist[i].log, "render", "B") = 1
        /\ hist[i + 1].op[2] = "B"
        /\ hist[i + 2].op[1] = "renderRoot"
        /\ Count(hist[i + 2].log, "doRenderError", "A") = 0
        /\ Count(hist[i + 2].log, "doRender", "A") = 1

\* The latest operation was a root pass.
LatestIsPass == hist # << >> /\ Latest.op[1] = "renderRoot"

\* C11: in a pass that calls render() of A once, doRenderError of A is
\* invoked at most once, and when it throws, the caller (doRender of R)
\* receives the error, so that R renders it through its own doRenderError.
C11_ErrorHookNotReinvoked ==
    (LatestIsPass /\ Count(log, "render", "A") = 1)
        => /\ Count(log, "doRenderError", "A") <= 1
           /\ (conf["A"].doRenderError = "rethrow"
                  /\ Count(log, "doRenderError", "A") >= 1)
                 => /\ Count(log, "doRenderError", "R") = 1
                    /\ ret.kind = "ok"
                    /\ Head(ret.val) = "error"

\* C12: a rejection records the error and requests a render of the root; a
\* pass that renders A while the error is recorded invokes doRenderError of
\* A with it, and neither doPrepare nor doRender, and leaves the error
\* recorded; a state change of A clears the error, and a pass that then
\* renders A, which has to prepare, invokes doPrepare once; when A is
\* prepared (the promise was fulfilled) a pass invokes doRender with the
\* prepare result and A renders normally.
C12_RejectedPreparePersists ==
    [][/\ (LastOp[1] = "reject" /\ LastOp[2] = "A")
             => /\ comp'["A"].renderError = "AsyncError"
                /\ comp'["R"].needsRenderTimeout
       /\ (/\ LastOp[1] = "renderRoot"
           /\ comp["A"].renderError = "AsyncError"
           /\ Count(log', "render", "A") > 0)
             => /\ Count(log', "doRenderError", "A") >= 1
                /\ Count(log', "doPrepare", "A") = 0
                /\ Count(log', "doRender", "A") = 0
                /\ comp'["A"].renderError = "AsyncError"
                /\ conf["A"].doRenderError = "render"
                      => comp'["A"]._renderResult =
                            doRenderErrorResult("A", LastOp[3], "AsyncError")
       /\ (/\ LastOp[1] = "setState" /\ LastOp[2] = "A"
           /\ state'["A"] # state["A"]
           /\ comp["A"].renderError = "AsyncError")
             => /\ comp'["A"].renderError = NoError
                /\ comp'["A"]._renderCache = << >>
                /\ comp'["R"]._renderCache = << >>
       /\ (/\ LastOp[1] = "renderRoot"
           /\ conf["A"].doPrepare = "async"
           /\ comp["A"].renderError = NoError
           /\ Stale("A") /\ ~Unresolved("A")
           /\ Count(log', "render", "A") > 0)
             => /\ Count(log', "doPrepare", "A") = 1
                /\ Count(log', "doRenderError", "A") = 0
       /\ (/\ LastOp[1] = "renderRoot"
           /\ conf["A"].doPrepare = "async"
           /\ comp["A"].renderError = NoError
           /\ ~Stale("A")
           /\ Count(log', "render", "A") > 0)
             => /\ Count(log', "doRender", "A") = 1
                /\ Count(log', "doRenderError", "A") = 0
                /\ comp'["A"]._renderResult =
                      RenderResult("A", LastOp[3], comp["A"]._prepareResult, << >>)]_vars

\* A rejection, an error pass, a state change, a pass that prepares again,
\* the fulfilment, and a pass that renders normally.
C12_Witness ==
    \E i \in 1..(Len(hist) - 5) :
        /\ hist[i].op[1] = "reject"
        /\ hist[i + 1].op[1] = "renderRoot"
        /\ Count(hist[i + 1].log, "doRenderError", "A") = 1
        /\ hist[i + 2].op[1] = "setState"
        /\ hist[i + 3].op[1] = "renderRoot"
        /\ Count(hist[i + 3].log, "doPrepare", "A") = 1
        /\ hist[i + 4].op[1] = "resolve"
        /\ hist[i + 5].op[1] = "renderRoot"
        /\ Count(hist[i + 5].log, "doRender", "A") = 1
        /\ hist[i + 5].ret.kind = "ok"

\* C13: component.render() called while no root pass is in progress throws
\* the "outside a pass" error, invokes no hook, and leaves every component
\* as it was: phase, mounted flag, render parent, context, prepare and render
\* caches, and with them the contexts, the state and the engine's queues.
C13_RenderOutsidePassThrows ==
    [][LastOp[1] = "render"
         => /\ ret' = [kind |-> "throw", val |-> "RenderOutsidePass"]
            /\ log' = << >>
            /\ UNCHANGED <<comp, state, contexts, usedArrays, renderStack, renderState,
                           interruptedComponents, unmountedComponents, promises,
                           disappearHandlersTimeout, rerenderInterruptedTimeout>>]_vars

\* render() was called on the mounted child C after a pass had rendered it.
C13_Witness ==
    \E i \in 2..Len(hist) :
        /\ hist[i].op = <<"render", "C", "x">>
        /\ hist[i].ret.kind = "throw"
        /\ hist[i - 1].op[1] = "renderRoot"
        /\ comp["C"].mounted /\ comp["C"].phase = RENDERED

\* C14: a pass in which C is rendered under a second, different parent while
\* it is still a rendered child of the first does not complete normally: an
\* error is thrown, which reaches the caller of renderRoot or the
\* doRenderError hook of an ancestor.
C14_TwoParentsThrow ==
    (/\ LatestIsPass
     /\ Count(log, "render", "C") >= 2
     /\ MapHas(comp["A"].renderedChildren, "C"))
        => \/ ret.kind = "throw"
           \/ \E c \in Comp : Count(log, "doRenderError", c) > 0

\* The children the statements ss of a hook of P render when called with arg
RenderedBy(P, ss, arg) ==
    {ss[i].child : i \in {j \in 1..Len(ss) :
        /\ ss[j].op = "render"
        /\ (ss[j].onArg = "" \/ ss[j].onArg = arg)
        /\ (ss[j].key = "" \/ state[P][ss[j].key] = ss[j].val)}}

\* The children P rendered in its most recent completed render step and in
\* the prepare step before it (none while P has never completed a render)
LastRenderedChildren(P) ==
    IF Head(comp[P]._renderResult) # "(" THEN {}
    ELSE RenderedBy(P, prog[P].render, comp[P]._renderResult[3])
         \cup (IF conf[P].doPrepare = "default" THEN {}
               ELSE RenderedBy(P, prog[P].prepare, ""))

\* C15: between passes the components form a consistent tree: a mounted
\* component that has a render parent is listed in the rendered-children
\* record of that parent, which is mounted; a component that is not mounted
\* has no render parent; a component listed in the record of a mounted
\* component is mounted with that component as its render parent; no
\* component is listed in the records of two different components; and each
\* record holds exactly the children of the component's most recent
\* completed render or prepare step.
C15_TreeConsistent ==
    /\ \A c \in Comp :
          (comp[c].mounted /\ comp[c]._renderParent # NoComp)
              => /\ MapHas(comp[comp[c]._renderParent].renderedChildren, c)
                 /\ comp[comp[c]._renderParent].mounted
    /\ \A c \in Comp : ~comp[c].mounted => comp[c]._renderParent = NoComp
    /\ \A p, c \in Comp :
          (MapHas(comp[p].renderedChildren, c) /\ comp[p].mounted)
              => (comp[c].mounted /\ comp[c]._renderParent = p)
    /\ \A p, q, c \in Comp :
          (MapHas(comp[p].renderedChildren, c) /\ MapHas(comp[q].renderedChildren, c))
              => p = q
    /\ \A p \in Comp : MapKeys(comp[p].renderedChildren) = LastRenderedChildren(p)

\* A waits for the pending C: C is rendered with renderRequired, or A's
\* shouldWaitForChildren holds and C is not rendered with renderOptional.
AWaitsForC ==
    \/ ModeOf("A", "C") = "required"
    \/ (conf["A"].shouldWaitForChildren /\ ModeOf("A", "C") # "optional")

IndexOf(l, h, c) ==
    IF Count(l, h, c) = 0 THEN 0
    ELSE CHOOSE i \in 1..Len(l) :
             /\ l[i] = <<h, c>>
             /\ \A j \in 1..(i - 1) : l[j] # <<h, c>>

\* C17: in a pass in which doRender of P ran, for every child c of P's
\* previous rendered-children record:
\*   - if P rendered c again, c is not unmounted;
\*   - if P did not render c and c had been mounted under another parent
\*     earlier in the pass, c is not unmounted at all;
\*   - otherwise c is unmounted at the end of P's render step, after every
\*     child of c's own record has been unmounted (onUnmount of a descendant
\*     precedes onUnmount of its ancestor), and c is left unmounted unless a
\*     later step of the pass mounts it again.
C17_ChildrenReconciled ==
    [][\A P \in {"R", "A", "B"} :
         (LastOp[1] = "renderRoot" /\ Count(log', "doRender", P) = 1)
           => \A c \in {k \in MapKeys(comp[P].renderedChildren) :
                             comp[k].mounted /\ comp[k]._renderParent = P} :
                 LET rendered == MapHas(comp'[P].renderedChildren, c)
                     mountedBefore ==
                         /\ IndexOf(log', "onMount", c) > 0
                         /\ IndexOf(log', "onMount", c) < IndexOf(log', "doRender", P)
                 IN  /\ rendered => Count(log', "onUnmount", c) = 0
                     /\ (~rendered /\ mountedBefore) => Count(log', "onUnmount", c) = 0
                     /\ (~rendered /\ ~mountedBefore)
                            => /\ Count(log', "onUnmount", c) = 1
                               /\ IndexOf(log', "onUnmount", c) > IndexOf(log', "doRender", P)
                               /\ \A d \in MapKeys(comp[c].renderedChildren) :
                                     /\ Count(log', "onUnmount", d) = 1
                                     /\ IndexOf(log', "onUnmount", d)
                                            < IndexOf(log', "onUnmount", c)
                               /\ (IndexOf(log', "onMount", c) = 0
                                       => ~comp'[c].mounted)]_vars

\* A pass removed A from the tree of R and unmounted A's child C before A.
C17_Witness ==
    /\ LatestIsPass
    /\ Count(log, "doRender", "R") = 1
    /\ IndexOf(log, "onUnmount", "C") > 0
    /\ IndexOf(log, "onUnmount", "C") < IndexOf(log, "onUnmount", "A")
    /\ ~comp["A"].mounted /\ ~comp["C"].mounted

\* The prepare cache and the render cache of c are empty.
CachesInvalid(c) ==
    /\ ~comp[c].prepared
    /\ comp[c]._prepare = 0
    /\ comp[c]._prepareResult = <<Undefined>>
    /\ comp[c].prepareChildren = EmptyMap
    /\ comp[c]._renderCache = << >>
    /\ comp[c]._currentlyUsedCache = 0

\* C18: a component that an operation unmounted and left unmounted, alone or
\* with an ancestor, has no prepare cache (prepared flag, prepare result,
\* prepare children) and no render cache; and the next pass that renders it
\* invokes its doPrepare again and mounts the children its doPrepare renders
\* again, as prepare children.
C18_UnmountInvalidatesCaches ==
    [][\A c \in Comp :
         /\ (Count(log', "onUnmount", c) >= 1 /\ ~comp'[c].mounted)
               => CachesInvalid(c)'
         /\ (/\ LastOp[1] = "renderRoot"
             /\ comp[c].phase = UNMOUNTING
             /\ Count(log', "render", c) >= 1)
               => /\ Count(log', "doPrepare", c) >= 1
                  /\ conf[c].doPrepare # "default"
                        => \A d \in RenderedBy(c, prog[c].prepare, "") :
                              /\ Count(log', "onMount", d) >= 1
                              /\ comp'[d].mounted
                              /\ comp'[d]._renderParent = c
                              /\ MapHas(comp'[c].prepareChildren, d)]_vars

\* A, which renders C from its doPrepare, was rendered, unmounted together
\* with C, and rendered again: doPrepare ran again and C is mounted.
C18_Witness ==
    \E i \in 1..(Len(hist) - 1) :
        /\ Count(hist[i].log, "onUnmount", "A") = 1
        /\ Count(hist[i].log, "onUnmount", "C") = 1
        /\ hist[i + 1].op[1] = "renderRoot"
        /\ Count(hist[i + 1].log, "doPrepare", "A") = 1
        /\ Count(hist[i + 1].log, "onMount", "C") = 1
        /\ conf["A"].doPrepare = "sync"
        /\ Len(hist) = i + 1
        /\ MapHas(comp["A"].prepareChildren, "C")

\* The components waiting in the queue of the disappear callback
Unmounted == {unmountedComponents[i] : i \in 1..Len(unmountedComponents)}

\* C19: no operation other than the scheduled disappear callback invokes
\* onDisappear; an operation that unmounts a component puts it in the queue
\* of the callback and schedules the callback; and the callback invokes
\* onDisappear of exactly the queued components that are not mounted when it
\* fires, so not of one that has been mounted again, and empties the queue.
C19_DisappearDeferred ==
    [][/\ LastOp[1] # "disappearHandlers"
             => \A c \in Comp : Count(log', "onDisappear", c) = 0
       /\ \A c \in Comp :
             Count(log', "onUnmount", c) >= 1
                 => (disappearHandlersTimeout' /\ c \in Unmounted')
       /\ LastOp[1] = "disappearHandlers"
             => /\ \A c \in Comp :
                      Count(log', "onDisappear", c) >= 1
                          <=> (c \in Unmounted /\ ~comp[c].mounted)
                /\ unmountedComponents' = << >>
                /\ ~disappearHandlersTimeout'
                /\ comp' = comp]_vars

\* C was unmounted by one pass and mounted again by the next before the
\* callback fired: the callback did not invoke its onDisappear.
C19_Witness ==
    /\ Len(hist) >= 3
    /\ Latest.op[1] = "disappearHandlers"
    /\ Count(hist[Len(hist) - 2].log, "onUnmount", "C") = 1
    /\ hist[Len(hist) - 2].op[1] = "renderRoot"
    /\ Count(hist[Len(hist) - 1].log, "onMount", "C") = 1
    /\ Count(log, "onDisappear", "C") = 0
    /\ comp["C"].mounted

\* Whether c is mounted when entry j of the log l of an operation is written:
\* what its latest onMount or onUnmount before j left, or the mounted flag
\* before the operation when there is none.
MountedAt(l, c, j) ==
    LET events == {i \in 1..(j - 1) : l[i] \in {<<"onMount", c>>, <<"onUnmount", c>>}}
    IN  IF events = {} THEN comp[c].mounted
        ELSE l[CHOOSE i \in events : \A k \in events : k <= i] = <<"onMount", c>>

EventsOf(l, c) == SelectSeq(l, LAMBDA e : e[2] = c)

\* The hooks through which a component renders
RenderHooks == {"doPrepare", "doRender", "doRenderError", "doRenderPending", "onCachedRender"}

\* C21: within an operation the hooks of a component c that is mounted are
\* ordered: onReceiveContext (when the context object is new) comes before
\* onAppear and onMount, never after them; onAppear is immediately followed by
\* onMount; after onMount the next hook of c is one of its render hooks, and
\* no render hook of a component that was not mounted runs before its
\* onMount; the onMount of the
\* parent under which c ends precedes the onMount of c when both are mounted
\* in the operation; and onDisappear of c is invoked only after an earlier
\* operation invoked onUnmount of c.
C21_MountOrder ==
    [][\A c \in Comp :
         LET F == EventsOf(log', c)
             p == comp'[c]._renderParent
         IN  /\ \A i \in 1..Len(F) :
                   /\ F[i][1] = "onAppear"
                         => (i < Len(F) /\ F[i + 1][1] = "onMount")
                   /\ (F[i][1] \in {"onAppear", "onMount"} /\ i < Len(F))
                         => F[i + 1][1] # "onReceiveContext"
                   /\ (F[i][1] = "onMount" /\ i < Len(F))
                         => F[i + 1][1] \in RenderHooks
                   /\ (F[i][1] \in RenderHooks /\ ~comp[c].mounted)
                         => \E j \in 1..(i - 1) : F[j][1] = "onMount"
             /\ (/\ p # NoComp
                 /\ Count(log', "onMount", c) = 1
                 /\ Count(log', "onMount", p) = 1)
                   => IndexOf(log', "onMount", p) < IndexOf(log', "onMount", c)
             /\ Count(log', "onDisappear", c) >= 1
                   => \E i \in 1..Len(hist) : Count(hist[i].log, "onUnmount", c) >= 1]_vars

\* A pass mounted A and its child C again after both had been unmounted:
\* onAppear and onMount of A, then its render hook, then those of C.
C21_Witness ==
    /\ Len(hist) >= 3
    /\ LatestIsPass
    /\ EventsOf(log, "A") = << <<"render", "A">>, <<"onAppear", "A">>, <<"onMount", "A">>,
                               <<"doPrepare", "A">>, <<"doRender", "A">> >>
    /\ Count(log, "onMount", "C") = 1
    /\ IndexOf(log, "onMount", "A") < IndexOf(log, "onMount", "C")
    /\ comp["C"]._renderParent = "A"

\* The latest pass rendered c, and no state of its render parent p has been
\* set since: the values p publishes are those c's context was made from.
SameModifications(p, c) ==
    \E i \in 1..Len(hist) :
        /\ hist[i].op[1] = "renderRoot"
        /\ Count(hist[i].log, "render", c) >= 1
        /\ \A j \in (i + 1)..Len(hist) :
              /\ hist[j].op[1] # "renderRoot"
              /\ ~(hist[j].op[1] = "setState" /\ hist[j].op[2] = p)

\* C22: in a pass that renders c again under the parent p it is mounted in,
\* with the context of p the same object as when c was last rendered and the
\* values p publishes unchanged since, c keeps the identical context object
\* and none of onAppear, onMount, onUnmount, onReceiveContext of c is
\* invoked; and in any pass onReceiveContext of c is invoked exactly when c
\* ends the pass with a context object other than the one it had.
C22_StableRerenderIsSilent ==
    [][LastOp[1] = "renderRoot" =>
         \A c \in Comp :
            /\ Count(log', "onReceiveContext", c) >= 1
                   <=> comp'[c]._context # comp[c]._context
            /\ \A p \in Comp :
                  (/\ comp[c].mounted /\ comp[c]._renderParent = p
                   /\ Count(log', "render", c) >= 1
                   /\ comp'[c]._renderParent = p
                   /\ comp'[p]._context = comp[p]._context
                   /\ SameModifications(p, c))
                     => /\ comp'[c]._context = comp[c]._context
                        /\ \A h \in {"onAppear", "onMount", "onUnmount", "onReceiveContext"} :
                              Count(log', h, c) = 0]_vars

\* After a pass had handed A its context, a later pass rendered A again
\* without any lifecycle hook.
C22_Witness ==
    \E i \in 1..(Len(hist) - 1) :
        /\ hist[i].op[1] = "renderRoot"
        /\ Count(hist[i].log, "onReceiveContext", "A") = 1
        /\ i >= 2
        /\ Latest.op[1] = "renderRoot"
        /\ Len(hist) > i
        /\ Count(log, "render", "A") = 1
        /\ \A h \in {"onAppear", "onMount", "onUnmount", "onReceiveContext"} :
              Count(log, h, "A") = 0

\* The components recorded as interrupted under root r after the step
InterruptedUnder(r) ==
    IF MapHas(interruptedComponents', r) THEN MapGet(interruptedComponents', r)
    ELSE << >>

\* render() of component c was called after render() of component first in
\* the step
RenderedAfter(first, c) ==
    /\ Count(log', "render", c) >= 1
    /\ IndexOf(log', "render", first) < IndexOf(log', "render", c)

RECURSIVE PassRootOf(_)
\* The root of the tree component c is rendered in after the step
PassRootOf(c) ==
    IF comp'[c]._renderParent = NoComp THEN c
    ELSE PassRootOf(comp'[c]._renderParent)

\* The roots whose pass ran in the step
PassRoots == {r \in Comp : Count(log', "render", r) >= 1 /\ comp'[r]._renderParent = NoComp}

\* C23: a pass in which a component was interrupted is marked interrupted
\* (and only such a pass), and every component rendered later in that pass
\* whose own shouldInterruptRender returns true renders without doRender
\* and is recorded in the interrupt registry under the root of the pass.
C23_AskingComponentsInterrupted ==
    [][LastOp[1] = "renderRoot" =>
        \A r \in PassRoots :
            /\ comp'[r].renderRootWasInterrupted <=> InterruptedUnder(r) # << >>
            /\ \A c \in Comp :
                 ( /\ InterruptedUnder(r) # << >>
                   /\ RenderedAfter(InterruptedUnder(r)[1], c)
                   /\ conf[c].shouldInterruptRender = "always"
                   /\ PassRootOf(c) = r )
                 => /\ Count(log', "doRender", c) = 0
                    /\ \E i \in 1..Len(InterruptedUnder(r)) : InterruptedUnder(r)[i] = c]_vars

\* C23 as stated: every component rendered after the first interrupt of a
\* pass renders without doRender and is recorded under the root of the pass.
C23_WholePassInterrupted ==
    [][LastOp[1] = "renderRoot" =>
        \A c \in Comp :
            ( /\ InterruptedUnder("R") # << >>
              /\ RenderedAfter(InterruptedUnder("R")[1], c) )
            => /\ Count(log', "doRender", c) = 0
               /\ \E i \in 1..Len(InterruptedUnder("R")) : InterruptedUnder("R")[i] = c]_vars

\* A pass in which A and then B were interrupted: B rendered through
\* doRenderPending.
C23_Witness ==
    /\ LatestIsPass
    /\ comp["R"].renderRootWasInterrupted
    /\ MapHas(interruptedComponents, "R")
    /\ MapGet(interruptedComponents, "R") = <<"A", "B">>
    /\ Count(log, "doRenderPending", "B") = 1
    /\ Count(log, "doRender", "B") = 0

RECURSIVE InvalidationChain(_)
\* The components reached from c going up through render parents as long
\* as the component left behind is in phase RENDERED or RESTORING
InvalidationChain(c) ==
    IF c = NoComp THEN {}
    ELSE {c} \cup (IF comp[c].phase \in {RENDERED, RESTORING}
                   THEN InvalidationChain(comp[c]._renderParent)
                   ELSE {})

\* The components recorded as interrupted, under any root
Recorded ==
    UNION {{interruptedComponents[i].v[j] : j \in 1..Len(interruptedComponents[i].v)} :
               i \in 1..Len(interruptedComponents)}

\* Component a renders, in its prepare step, a child through which an
\* invalidation coming from a recorded component reaches it.
PrepareAncestor(a) ==
    \E c \in Recorded : \E k \in InvalidationChain(c) :
        /\ comp[k].phase \in {RENDERED, RESTORING}
        /\ comp[k]._renderParent = a
        /\ comp[a].hasChildrenData
        /\ MapHas(comp[a].prepareChildren, k)

\* C24: when the resumption timer fires, every recorded component and its
\* ancestors, up to and including the first one whose phase is neither
\* RENDERED nor RESTORING, lose their render cache, and no other component
\* does; the prepare cache is invalidated exactly for the ancestors that
\* rendered the invalidated child in their prepare step; the registry is
\* emptied and the render-request timer of every root that had an entry
\* is scheduled, which then invokes the root's render-request callback.  A
\* root pass replaces the root's entry by the components it interrupted.
C24_Resumption ==
    [][/\ LastOp[1] = "rerenderAllInterrupted" =>
            /\ \A c \in Recorded : \A a \in InvalidationChain(c) :
                   comp'[a]._renderCache = << >> /\ comp'[a]._currentlyUsedCache = 0
            /\ \A a \in Comp :
                   \/ \E c \in Recorded : a \in InvalidationChain(c)
                   \/ comp'[a]._renderCache = comp[a]._renderCache
            /\ \A a \in Comp :
                   IF PrepareAncestor(a) THEN ~comp'[a].prepared
                   ELSE comp'[a].prepared = comp[a].prepared
            /\ interruptedComponents' = << >>
            /\ ~rerenderInterruptedTimeout'
            /\ \A i \in 1..Len(interruptedComponents) :
                   comp'[interruptedComponents[i].k].needsRenderTimeout
       /\ LastOp[1] = "needsRender" =>
            Count(log', "onRequestRender", LastOp[2]) = 1
       /\ LastOp[1] = "renderRoot" =>
            \A i \in 1..Len(InterruptedUnder("R")) :
                Count(log', "render", InterruptedUnder("R")[i]) >= 1]_vars

\* C24 as stated: when the resumption timer fires, every recorded component
\* has neither a render cache nor a prepare cache afterwards.
C24_RecordedLosePrepareCache ==
    [][LastOp[1] = "rerenderAllInterrupted" =>
        \A c \in Recorded :
            /\ comp'[c]._renderCache = << >>
            /\ ~comp'[c].prepared]_vars

\* The resumption timer has just fired for the root R, whose registry entry
\* held B; B's parent A had thrown and is left in phase RENDERING, so that
\* the invalidation stopped at A.
C24_Witness ==
    /\ Len(hist) >= 2
    /\ Latest.op[1] = "rerenderAllInterrupted"
    /\ hist[Len(hist) - 1].op[1] = "renderRoot"
    /\ interruptedComponents = << >>
    /\ comp["R"].needsRenderTimeout
    /\ comp["B"]._renderParent = "A"
    /\ comp["A"].phase = RENDERING
    /\ comp["A"]._renderCache = << >>
    /\ ~comp["A"]._pendingRender
    /\ comp["B"]._pendingRender

\* The result of the latest operation holds a pending placeholder.
HasPlaceholder(r) ==
    r.kind # "ok" \/ \E i \in 1..Len(r.val) : r.val[i] = "pending"

\* C25: a pass of the root that is interrupted after an interrupted pass has
\* counted strictly more rendered components than that pass, and when the
\* root keeps being rendered a pass is eventually not interrupted and
\* returns a result without a pending placeholder (other than one left by the
\* interrupted pass of another root that was rendered inside).
C25_ForwardProgress ==
    /\ [][(/\ LastOp[1] = "renderRoot"
           /\ comp["R"].renderRootWasInterrupted
           /\ comp'["R"].renderRootWasInterrupted)
          => comp'["R"].componentCount > comp["R"].componentCount]_vars
    /\ <>(/\ LatestIsPass
          /\ ~comp["R"].renderRootWasInterrupted
          /\ (HasPlaceholder(ret) => comp["B"].renderRootWasInterrupted))

\* Two interrupted passes, the second with more components rendered, were
\* followed by a pass that was not interrupted.
C25_Witness ==
    /\ LatestIsPass
    /\ ~comp["R"].renderRootWasInterrupted
    /\ ~HasPlaceholder(ret)
    /\ comp["R"].componentCount = 3
    /\ \E i, j \in 1..(Len(hist) - 1) :
           /\ i < j
           /\ hist[i].op[1] = "renderRoot" /\ hist[j].op[1] = "renderRoot"
           /\ Count(hist[i].log, "doRenderPending", "A") = 1
           /\ Count(hist[i].log, "doRenderPending", "B") = 1
           /\ Count(hist[j].log, "doRender", "A") = 1
           /\ Count(hist[j].log, "doRenderPending", "B") = 1
           /\ Count(log, "doRender", "B") = 1

\* The root R calls B.renderRoot in its doRender.
RendersRootInside == prog["R"].render[1].op = "renderRoot"

\* C26: when B.renderRoot is called from doRender of R, B is rendered as a
\* root (no render parent, its descendants under it), the interruption of
\* B's pass is recorded for B only (flag, registry entry), R's pass is not
\* marked interrupted and counts only its own components, the component R
\* renders after the call gets R as render parent, and when B.renderRoot
\* throws R renders the error; after the operation the render stack is empty
\* and the global render state is what it was before.
C26_NestedPassIsolated ==
    [][(/\ LastOp[1] = "renderRoot"
        /\ RendersRootInside
        /\ Count(log', "doRender", "R") >= 1)
       => /\ Count(log', "render", "B") = 1
          /\ comp'["B"]._renderParent = NoComp
          /\ comp'["C"]._renderParent = "B"
          /\ comp'["B"].renderRootWasInterrupted <=> MapHas(interruptedComponents', "B")
          /\ Count(log', "doRenderPending", "C") >= 1
                 => /\ comp'["B"].renderRootWasInterrupted
                    /\ MapGet(interruptedComponents', "B") = <<"C">>
          /\ ~comp'["R"].renderRootWasInterrupted
          /\ ~MapHas(interruptedComponents', "R")
          /\ renderStack' = << >>
          /\ renderState' = renderState
          /\ comp'["R"].phase = RENDERED
          /\ IF ret'.val[1] = "error"
             THEN /\ ret'.val = <<"error", "R", LastOp[3], ErrorOf("C")>>
                  /\ Count(log', "render", "A") = 0
             ELSE /\ Count(log', "render", "A") = 1
                  /\ comp'["A"]._renderParent = "R"
                  /\ comp'["R"].componentCount = 2]_vars

\* B's pass inside R's pass was interrupted at C; A was then rendered by
\* doRender under R, whose pass is not interrupted.
C26_Witness ==
    /\ LatestIsPass
    /\ RendersRootInside
    /\ comp["B"].renderRootWasInterrupted
    /\ MapHas(interruptedComponents, "B")
    /\ ~comp["R"].renderRootWasInterrupted
    /\ Count(log, "doRender", "A") = 1
    /\ IndexOf(log, "doRenderPending", "C") < IndexOf(log, "render", "A")
    /\ comp["A"]._renderParent = "R"
    /\ comp["B"]._renderParent = NoComp

RECURSIVE UpToRoot(_)
\* Component c and its render ancestors
UpToRoot(c) ==
    IF c = NoComp THEN {} ELSE {c} \cup UpToRoot(comp[c]._renderParent)

\* The step is a setState that changes an attribute of the mounted component c.
ChangesMounted(c) ==
    /\ LastOp[1] = "setState"
    /\ LastOp[2] = c
    /\ state'[c] # state[c]
    /\ comp[c].mounted

\* C27: a setState that changes an attribute of a mounted
\* component, outside a pass, empties the render caches of the component and
\* of all its ancestors and schedules the render-request callback of the root.
C27_NoLostUpdate ==
    [][\A c \in Comp : ChangesMounted(c) =>
          /\ \A a \in UpToRoot(c) : comp'[a]._renderCache = << >>
          /\ \E r \in UpToRoot(c) :
                 comp[r]._renderParent = NoComp /\ comp'[r].needsRenderTimeout]_vars

\* The step is a render request on the mounted, rendered tree of root R.
RequestsRender ==
    /\ LastOp[1] \in {"forceRender", "forcePrepare"}
    /\ comp[LastOp[2]].phase = RENDERED
    /\ \A a \in UpToRoot(LastOp[2]) : comp[a].phase = RENDERED

\* C28: a root never has more than one render-request callback waiting in
\* the scheduler; while one is waiting, no operation schedules another; the
\* callback, when it runs, invokes the root's render-request callback once
\* and leaves none waiting; and a request made while none is waiting
\* schedules one.
C28_RequestsBatched ==
    [][\A c \in Comp :
          /\ comp'[c].scheduledRenderRequests <= 1
          /\ comp'[c].needsRenderTimeout <=> comp'[c].scheduledRenderRequests = 1
          /\ (comp[c].needsRenderTimeout /\ LastOp # <<"needsRender", c>>)
                 => comp'[c].scheduledRenderRequests = 1
          /\ LastOp = <<"needsRender", c>>
                 => /\ Count(log', "onRequestRender", c) = 1
                    /\ comp'[c].scheduledRenderRequests = 0
          /\ (RequestsRender /\ c \in UpToRoot(LastOp[2]) /\ comp[c]._renderParent = NoComp)
                 => comp'[c].scheduledRenderRequests = 1]_vars

\* Two requests were made on the rendered tree before the callback ran; it
\* then ran once.
C28_Witness ==
    /\ Len(hist) >= 4
    /\ Latest.op = <<"needsRender", "R">>
    /\ log = <<<<"onRequestRender", "R">>>>
    /\ comp["R"].scheduledRenderRequests = 0
    /\ hist[Len(hist) - 1].op[1] \in {"forceRender", "setState"}
    /\ hist[Len(hist) - 2].op[1] \in {"forceRender", "forcePrepare"}
    /\ hist[Len(hist) - 3].op[1] = "renderRoot"
    /\ hist[Len(hist) - 3].ret.val[1] = "("

\* The policy of the class of c asks for a new prepare in the present state.
PolicyAsksPrepare(c) ==
    \/ conf[c].shouldPrepare = "always"
    \/ conf[c].shouldPrepare = "default" /\ comp[c]._changedAttributesSincePrepare # {}

\* The sequence part occurs in the sequence whole.
Occurs(part, whole) ==
    \E i \in 0..(Len(whole) - Len(part)) : SubSeq(whole, i + 1, i + Len(part)) = part

\* C29: a root pass invokes doPrepare of a component only if the component
\* is not prepared or its shouldPrepare returns true for the attributes
\* changed since its last prepare; otherwise a doRender of the component is
\* given the prepare result it already had, which is kept; and a component
\* that is not prepared and is rendered has its doPrepare invoked even if its
\* shouldPrepare returns false.
C29_PrepareReuse ==
    [][LastOp[1] = "renderRoot" =>
        \A c \in Comp :
            /\ Count(log', "doPrepare", c) >= 1
                   => ~comp[c].prepared \/ PolicyAsksPrepare(c)
            /\ (comp[c].prepared /\ ~PolicyAsksPrepare(c) /\ Count(log', "doRender", c) >= 1)
                   => /\ Count(log', "doPrepare", c) = 0
                      /\ comp'[c]._prepareResult = comp[c]._prepareResult
                      /\ (ret'.kind = "ok" /\ Head(ret'.val) = "(")
                             => Occurs(<<"(", c, LastOp[3]>> \o comp[c]._prepareResult,
                                       ret'.val)
            /\ (~comp[c].prepared /\ Count(log', "render", c) >= 1)
                   => Count(log', "doPrepare", c) >= 1]_vars

\* A, whose shouldPrepare returns false, was prepared, had an attribute
\* changed, and was rendered again with the prepare result it had; after a
\* forcePrepare the next pass would prepare it again.
C29_Witness ==
    /\ Len(hist) >= 3
    /\ conf["A"].shouldPrepare = "never"
    /\ LatestIsPass
    /\ hist[Len(hist) - 1].op = <<"setState", "A", "k1", "v1">>
    /\ Count(hist[Len(hist) - 2].log, "doPrepare", "A") = 1
    /\ Count(log, "doRender", "A") = 1
    /\ Count(log, "doPrepare", "A") = 0
    /\ comp["A"].prepared
    /\ state["A"]["k1"] = "v1"
    /\ Occurs(<<"(", "A", Latest.op[3]>> \o comp["A"]._prepareResult, ret.val)

\* The step is a render request (forceRender, or a setState that changes an
\* attribute) of the rendered component c, mounted under parent p.
RequestFrom(c, p) ==
    /\ \/ LastOp = <<"forceRender", c>>
       \/ LastOp[1] = "setState" /\ LastOp[2] = c /\ state'[c] # state[c]
    /\ comp[c].mounted
    /\ comp[c].phase = RENDERED
    /\ comp[c]._renderParent = p

\* Component c is among the children p rendered in its prepare step.
IsPrepareChild(p, c) ==
    comp[p].hasChildrenData /\ MapHas(comp[p].prepareChildren, c)

\* The latest operation was a render request of c.
LatestRequestFrom(c) ==
    /\ hist # << >>
    /\ Latest.op[1] \in {"forceRender", "setState"}
    /\ Latest.op[2] = c

\* C30: a render request of a child that its parent rendered in its prepare
\* step leaves the parent without prepare cache and without render cache, and
\* the next pass that renders the parent invokes its doPrepare; a render
\* request of a child the parent rendered only in its render step empties
\* the parent's render cache and leaves its prepare cache as it was, and the
\* next pass renders the parent without doPrepare (unless its shouldPrepare
\* asks for one or its context changed).
C30_PrepareChildRePrepares ==
    [][\A p, c \in Comp :
          /\ (RequestFrom(c, p) /\ IsPrepareChild(p, c))
                 => /\ ~comp'[p].prepared
                    /\ comp'[p]._prepareResult = <<Undefined>>
                    /\ comp'[p].prepareChildren = EmptyMap
                    /\ comp'[p]._renderCache = << >>
          /\ (RequestFrom(c, p) /\ ~IsPrepareChild(p, c))
                 => /\ comp'[p]._renderCache = << >>
                    /\ comp'[p].prepared = comp[p].prepared
                    /\ comp'[p]._prepareResult = comp[p]._prepareResult
                    /\ comp'[p].prepareChildren = comp[p].prepareChildren
          /\ (/\ LastOp[1] = "renderRoot"
              /\ LatestRequestFrom(c)
              /\ comp[c]._renderParent = p
              /\ Count(log', "render", p) >= 1)
                 => IF ~comp[p].prepared
                    THEN Count(log', "doPrepare", p) >= 1
                    ELSE \/ PolicyAsksPrepare(p)
                         \/ comp'[p]._context # comp[p]._context
                         \/ Count(log', "doPrepare", p) = 0]_vars

\* B, rendered in the prepare step of A, asked for a render, and the next
\* pass invoked doPrepare of A again.
C30_Witness ==
    /\ Len(hist) >= 3
    /\ LatestIsPass
    /\ hist[Len(hist) - 1].op = <<"forceRender", "B">>
    /\ hist[Len(hist) - 2].op[1] = "renderRoot"
    /\ Count(hist[Len(hist) - 2].log, "doPrepare", "A") = 1
    /\ Count(log, "doPrepare", "A") = 1
    /\ IsPrepareChild("A", "B")
    /\ comp["A"].prepared

-----------------------------------------------------------------------------
(* The caches *)

\* The setEntry(key, value) that led to this state, on a cache of this kind.
DidSetEntry(kind) == cacheObj.kind = kind /\ cacheOp'.op = "setEntry"

\* The keys of a sequence of entries, in its order.
KeysOf(entries) == [i \in 1..Len(entries) |-> entries[i].key]

Present(entries, key) == \E i \in 1..Len(entries) : entries[i].key = key

\* The place of a key in cacheOp.used: 1 for the key used last.
Position(used, key) == CHOOSE i \in 1..Len(used) : used[i] = key

\* C31: in the scan cache with maximum size n >= 0 the number of entries
\* never exceeds n; setEntry on an existing key replaces the value in place
\* and leaves the order of the entries alone; setEntry on a new key puts the
\* entry at the front and, when the cache was full, drops the entry at the
\* tail, which is the one inserted earliest; getEntry returns the stored
\* value of a key that is present and MISSING otherwise.
C31_ScanCache ==
    /\ [](cacheObj.kind = "scan" => Len(cacheObj.entries) <= cacheObj.maxSize)
    /\ [][DidSetEntry("scan") =>
            LET old == cacheObj.entries
                new == cacheObj'.entries
                entry == [key |-> cacheOp'.key, value |-> cacheOp'.value]
            IN  IF Present(old, entry.key)
                THEN /\ KeysOf(new) = KeysOf(old)
                     /\ \A i \in 1..Len(old) :
                            new[i].value = IF old[i].key = entry.key
                                           THEN entry.value ELSE old[i].value
                ELSE IF cacheObj.maxSize = 0 THEN new = << >>
                ELSE /\ new[1] = entry
                     /\ Tail(new) = IF Len(old) < cacheObj.maxSize THEN old
                                    ELSE SubSeq(old, 1, Len(old) - 1)]_vars
    /\ [][cacheObj.kind = "scan" /\ cacheOp'.op = "getEntry" =>
            /\ \A i \in 1..Len(cacheObj.entries) :
                   cacheObj.entries[i].key = cacheOp'.key
                       => cacheOp'.result = cacheObj.entries[i].value
            /\ ~Present(cacheObj.entries, cacheOp'.key) => cacheOp'.result = MISSING]_vars

\* C31 as stated: the entry that setEntry on a new key evicts from the scan
\* cache is the least recently used one, that is, every other entry was set
\* or found by getEntry after it.
C31_EvictsLeastRecentlyUsed ==
    [][DidSetEntry("scan") =>
          \A i \in 1..Len(cacheObj.entries) :
              ~Present(cacheObj'.entries, cacheObj.entries[i].key)
                  => \A j \in 1..Len(cacheObj.entries) :
                         Position(cacheOp.used, cacheObj.entries[j].key)
                             <= Position(cacheOp.used, cacheObj.entries[i].key)]_vars

\* A full scan cache of two entries whose last setEntry put a third key at
\* the front and evicted one.
C31_Witness ==
    /\ cacheObj.kind = "scan"
    /\ cacheObj.maxSize = 2
    /\ Len(cacheObj.entries) = 2
    /\ cacheOp.op = "setEntry"
    /\ cacheObj.entries[1].key = cacheOp.key
    /\ Len(cacheOp.used) = 3

\* The hashes in the non-null slots of keysOrder.
NonNull(keysOrder) == {keysOrder[i][1] : i \in {j \in 1..Len(keysOrder) : keysOrder[j] # << >>}}

\* C32: in the hash cache with maximum size n >= 0 the number of entries
\* never exceeds n, the non-null elements of keysOrder are exactly the keys
\* of the entry map, and a setEntry of a new key at capacity evicts the entry
\* that was inserted earliest among those present.
C32_HashCacheBound ==
    /\ [](cacheObj.kind = "hash" =>
            /\ Len(cacheObj.entries) <= cacheObj.maxSize
            /\ NonNull(cacheObj.keysOrder)
                   = {cacheObj.entries[i].key : i \in 1..Len(cacheObj.entries)})
    /\ [][(/\ DidSetEntry("hash")
           /\ cacheObj.maxSize > 0
           /\ Len(cacheObj.entries) >= cacheObj.maxSize
           /\ ~Present(cacheObj.entries, cacheObj.keyHash[cacheOp'.key]))
          => ~Present(cacheObj'.entries, cacheObj.entries[1].key)]_vars

\* C33: in the scan cache and in the hash cache, setEntry for a key that is
\* present only replaces the value of that key: the other entries, their
\* values and the order in which they will be evicted stay as they were,
\* also when the cache is at its maximum size.
C33_UpdateEvictsNothing ==
    [][(/\ cacheObj.kind \in {"scan", "hash"}
        /\ cacheOp'.op = "setEntry"
        /\ Present(cacheObj.entries,
                   IF cacheObj.kind = "hash" THEN cacheObj.keyHash[cacheOp'.key]
                   ELSE cacheOp'.key))
       => /\ KeysOf(cacheObj'.entries) = KeysOf(cacheObj.entries)
          /\ \A i \in 1..Len(cacheObj.entries) :
                 \/ cacheObj'.entries[i].value = cacheObj.entries[i].value
                 \/ /\ cacheObj'.entries[i].value = cacheOp'.value
                    /\ cacheObj.entries[i].key
                           = IF cacheObj.kind = "hash"
                             THEN cacheObj.keyHash[cacheOp'.key] ELSE cacheOp'.key
          /\ cacheObj.kind = "hash" => cacheObj'.keysOrder = cacheObj.keysOrder]_vars

-----------------------------------------------------------------------------
(* Components that failed to initialize *)

\* initialize or postInitialize of component c threw.
InitFailed(c) == conf[c].initialize = "throw"

LifecycleHooks == {"onAppear", "onMount", "onReceiveContext", "onUnmount", "onDisappear"}

\* No operation invokes a lifecycle hook, doPrepare or doRender of a
\* component that failed to initialize, and the component keeps its error.
StaysInError(c) ==
    /\ comp[c].renderError = "InitError"
    /\ \A i \in 1..Len(log) :
           log[i][2] = c => log[i][1] \notin LifecycleHooks \cup {"doPrepare", "doRender"}

\* Every render of component c in the operation invokes, as the next hook of
\* c, one of the given hooks.
EachRenderInvokes(c, hooks) ==
    \A i \in 1..Len(log) :
        log[i] = <<"render", c>> =>
            \E j \in (i + 1)..Len(log) :
                /\ log[j][2] = c
                /\ log[j][1] \in hooks
                /\ \A k \in (i + 1)..(j - 1) : log[k][2] # c

\* C34: a component whose initialize threw keeps the error of initialize for
\* good; no operation invokes one of its lifecycle hooks, its doPrepare or its
\* doRender, whatever state changes, forceRender calls, unmounts and remounts
\* came before; and every render of it invokes its doRenderError, unless its
\* shouldInterruptRender asked to interrupt the pass, in which case the render
\* invokes its doRenderPending instead.
C34_InitErrorPermanent ==
    \A c \in Comp :
        InitFailed(c) =>
            /\ StaysInError(c)
            /\ EachRenderInvokes(c, {"doRenderError", "doRenderPending"})
            /\ conf[c].shouldInterruptRender = "never"
                   => Count(log, "doRenderPending", c) = 0

\* C34 as stated: every render of a component whose initialize threw invokes
\* its doRenderError.
C34_EveryRenderIsErrorRender ==
    \A c \in Comp :
        InitFailed(c) =>
            /\ StaysInError(c)
            /\ EachRenderInvokes(c, {"doRenderError"})

\* A is rendered in its error state, the root is unmounted and A with it,
\* A is forced to render, and the next pass mounts A again and renders it.
C34_Witness ==
    /\ InitFailed("A")
    /\ Len(hist) = 4
    /\ hist[1].op[1] = "renderRoot"
    /\ Count(hist[1].log, "doRenderError", "A") = 1
    /\ hist[2].op[1] = "unrenderRoot"
    /\ hist[3].op[1] \in {"forceRender", "setState"}
    /\ hist[4].op[1] = "renderRoot"
    /\ Count(log, "doRenderError", "A") = 1
    /\ comp["A"].mounted

-----------------------------------------------------------------------------
(* Phases *)

Phases == {CREATING, MOUNTING, PREPARING, RENDERING, RENDERED, UNMOUNTING, RESTORING}

\* The operation set component c to UNMOUNTING.
SetUnmounting(c) ==
    /\ comp'[c].phase = UNMOUNTING
    /\ comp[c].phase # UNMOUNTING \/ Count(log', "onUnmount", c) > 0

\* C35: a component is in exactly one phase; CREATING is the phase after
\* construction only and is never entered again; MOUNTING, PREPARING and
\* RESTORING are passed through inside an operation, none ends in them;
\* and a component is set to UNMOUNTING only
\* from RENDERED or RESTORING: the components that unrenderRoot unmounts were
\* in one of these two phases when it was called.
C35_PhaseMachine ==
    [][\A c \in Comp :
          /\ comp'[c].phase \in Phases
          /\ comp'[c].phase = CREATING => comp[c].phase = CREATING
          /\ comp'[c].phase \in {MOUNTING, PREPARING, RESTORING} => comp[c].phase = comp'[c].phase
          /\ (LastOp[1] = "unrenderRoot" /\ SetUnmounting(c))
                 => comp[c].phase \in {RENDERED, RESTORING}]_vars

-----------------------------------------------------------------------------
(* The gate of shouldInterruptRender *)

\* The renders of the pass of root r in the last operation, without those
\* of the passes of other roots started inside it.
ChecksOf(r) == SelectSeq(interruptChecks', LAMBDA e : e.root = r)

\* C36: in a pass of root R that follows an interrupted pass of R, a
\* component rendered while the pass is not interrupted is asked
\* shouldInterruptRender only once the pass has rendered more components than
\* the previous pass had at its end, and only a component that was asked is
\* interrupted; in a pass that follows a pass that was not interrupted, and
\* once the pass is interrupted, every component rendered is asked.
C36_InterruptGate ==
    [][(LastOp[1] = "renderRoot" /\ LastOp[2] = "R") =>
          /\ \A i \in 1..Len(ChecksOf("R")) :
                 ChecksOf("R")[i].asked
                     <=> \/ ~comp["R"].renderRootWasInterrupted
                         \/ ChecksOf("R")[i].interrupted
                         \/ ChecksOf("R")[i].count > comp["R"].componentCount
          /\ \A i \in 1..Len(InterruptedUnder("R")) :
                 \E j \in 1..Len(ChecksOf("R")) :
                     /\ ChecksOf("R")[j].c = InterruptedUnder("R")[i]
                     /\ ChecksOf("R")[j].asked]_vars

\* A pass after an interrupted pass in which one component that would ask
\* for an interrupt was rendered without being asked and a later one was
\* asked.
C36_Witness ==
    /\ LatestIsPass
    /\ Len(hist) >= 2
    /\ hist[Len(hist) - 1].op[1] = "renderRoot"
    /\ \E i, j \in 1..Len(interruptChecks) :
           /\ i < j
           /\ interruptChecks[i].root = "R"
           /\ interruptChecks[j].root = "R"
           /\ ~interruptChecks[i].asked
           /\ conf[interruptChecks[i].c].shouldInterruptRender = "always"
           /\ interruptChecks[j].asked
           /\ conf[interruptChecks[j].c].shouldInterruptRender = "always"

-----------------------------------------------------------------------------
(* Hooks that ask for another render or prepare every time they run *)

\* C37: every render() call returns or throws, also when a hook asks every
\* time for a render or a prepare of its own component: an operation invokes
\* doRender of a component that it renders once at most
\* RENDER_RECURSION_LIMIT + 1 times and then leaves the request to a later
\* pass, and the loop that runs doPrepare ends of its own accord, before the
\* model stops following it.
C37_RenderTerminates ==
    \A c \in Comp :
        /\ Count(log, "doRender", c) <= RENDER_RECURSION_LIMIT + 1
        /\ (LatestIsPass /\ Count(log, "doRender", c) = RENDER_RECURSION_LIMIT + 1)
               => comp["R"].scheduledRenderRequests > 0
        /\ Count(log, "doPrepare", c) < MaxPrepareIterations

-----------------------------------------------------------------------------
(* The render stack *)

\* The components that a hook body renders.
Rendered(stmts) ==
    {stmts[i].child : i \in {j \in 1..Len(stmts) :
                                stmts[j].op \in {"render", "tryRender"}}}

\* C38: the render stack is balanced: no operation leaves a component on
\* it, and a render() that returns or throws leaves it as it found it, so
\* that the render parent of a component is the component whose doRender or
\* doPrepare called its render(), also when an earlier render() in the same
\* hook threw out of doRenderPending.
C38_RenderStackBalanced ==
    /\ renderStack = << >>
    /\ \A c \in Comp :
           comp[c]._renderParent # NoComp
               => c \in Rendered(prog[comp[c]._renderParent].render)
                           \cup Rendered(prog[comp[c]._renderParent].prepare)

-----------------------------------------------------------------------------
(* Prepare promises *)

\* The operation settled promise p after the component had given up the
\* prepare it belongs to.
SettledSuperseded(p, how) ==
    /\ p \in promises
    /\ p \notin promises'
    /\ LastOp[1] = how
    /\ comp[p.c]._prepare # p.id

PrepareUntouched(c) ==
    /\ comp'[c].prepared = comp[c].prepared
    /\ comp'[c]._prepareResult = comp[c]._prepareResult
    /\ comp'[c].renderError = comp[c].renderError

\* C39: when a prepare promise settles after the component has given up
\* that prepare (its prepare cache was invalidated, or a newer prepare is
\* under way), by fulfilment or by rejection, the prepared flag, the prepare
\* result and the recorded render error of the component stay as they were.
C39_SupersededPrepareIgnored ==
    [][\A p \in promises :
          (SettledSuperseded(p, "resolve") \/ SettledSuperseded(p, "reject"))
              => PrepareUntouched(p.c)]_vars

-----------------------------------------------------------------------------
(* Pairing of the lifecycle hooks *)

\* Every onUnmount the operation invoked found its component mounted.
UnmountsMounted ==
    \A c \in Comp : \A j \in 1..Len(log') :
        log'[j] = <<"onUnmount", c>> => MountedAt(log', c, j)

\* C40: lifecycle hooks are paired over any sequence of operations: onUnmount
\* is invoked on a component only while it is mounted, so unrenderRoot of a
\* root that was never mounted, or is unmounted already, invokes no hook; and
\* one firing of the disappear callback invokes onDisappear of a component at
\* most once.
C40_HooksPaired ==
    [][/\ UnmountsMounted
       /\ LastOp[1] = "unrenderRoot" /\ ~comp[LastOp[2]].mounted => log' = << >>
       /\ \A c \in Comp : Count(log', "onDisappear", c) <= 1]_vars

=============================================================================
